---- MODULE Spec2Model ----
(***************************************************************************)
(* Driver isolation layer of OpenList: the driver-manager process          *)
(* (instance manager + protocol handler) and the host-side stream          *)
(* sessions (inbound server connections, outbound client).                 *)
(*                                                                         *)
(* Five specifications share the variables of this module:                 *)
(*   SpecManager     the driver-manager process: DriverManager and         *)
(*                   ProtocolHandler (manager.go, protocol.go)             *)
(*   SpecConcurrent  DriverManager called by several goroutines            *)
(*   SpecSession     one host-side stream session after its handshake:     *)
(*                   sendRequest callers, the read loop, the peer          *)
(*   SpecClient      the outbound Connect: read loop and handshake wait    *)
(*                   sharing one scanner                                   *)
(*   SpecServer      the inbound listener: handshake wait and registry     *)
(***************************************************************************)
EXTENDS Integers, Sequences, FiniteSets, TLC

(***************************************************************************)
(* Sentinels for Go values                                                 *)
(***************************************************************************)
\* an untyped nil interface{} value / nil error
Nil == "nil"
\* a typed nil ([]model.Obj(nil), (*model.Link)(nil)) boxed in interface{}:
\* json.Marshal writes it as null
JsonNull == "null"
\* a params key that is absent or not of the asserted Go type
Missing == "missing"

(***************************************************************************)
(* Bounds                                                                  *)
(***************************************************************************)
\* driver objects the constructors may build in one run
MaxObjs == 2
\* sendRequest calls made on the session in one run
MaxCalls == 2
\* lines a peer has sent that the host has not read yet
MaxInbox == 1

(***************************************************************************)
(* The driver-manager process                                              *)
(***************************************************************************)
VARIABLES
    instances,   \* DriverManager.instances: instanceID -> DriverInstance
    nextObj,     \* identity of the next driver object a constructor returns
    lastToggle,  \* ghost: per instance ID, the Enable/Disable call that took the lock last
    hpc,         \* ProtocolHandler.Handle: "scan" (in scanner.Scan), "process"
                 \* (a line read), "sent" (its response written)
    hline,       \* the line the handler read in this pass of its loop
    hout,        \* the line it wrote on the connection in this pass
    hcalls,      \* ghost: the driver calls made in this pass
    hpre,        \* ghost: the instance table when the line was read
    henv         \* ghost: what the driver called in this pass answered

mvars == <<instances, nextObj, lastToggle, hpc, hline, hout, hcalls, hpre, henv>>

\* The connection the driver-manager process dials (main.go)
VARIABLES
    registry,    \* DriverRegistry.drivers: the driver names registered
    dpc,         \* runConnectionManager: "dial", "connected" (before SendHandshake),
                 \* "handle" (inside Handle), "retry" (the reconnect wait), "exit"
                 \* (it saw its context cancelled by main and returned)
    dconn        \* ghost: what was written on the connection dialed last

dvars == <<registry, dpc, dconn>>

\* One ExecuteDriverOperation call followed step by step while other callers
\* use the same DriverManager
VARIABLES
    epc,         \* its position: "idle", "check", "dispatch", "returned"
    ereq,        \* its arguments: instanceID, operation, params["path"]
    einst,       \* the *DriverInstance GetDriverInstance returned to it
    eret,        \* what it returned, with the driver calls it made
    eghost       \* ghost: the entry and last toggle of the instance ID when the
                 \* call started, and whether the entry changed since

evars == <<epc, ereq, einst, eret, eghost>>

\* One host-side stream session (DriverManagerClient, DriverManagerConnection)
VARIABLES
    now,         \* the last value time.Now().UnixNano() returned on the host
    connected,   \* dmc.connected
    sock,        \* dmc.conn: "none", "open", "peer_closed", "closed" (by the host)
    ctxDone,     \* the context handed to Connect and processMessages is cancelled
    responses,   \* dmc.responses: correlation ID -> channel (the number of its call)
    scalls,      \* the sendRequest calls made, in order, each with its channel
    wire,        \* what the host wrote on the connection (its requests, each
                 \* with the call that wrote it) that the peer has not answered
    inbox,       \* lines the peer wrote that the host has not read
    rl,          \* processMessages: position, and the message and channel it holds
    panicked,    \* the host process died of a send on a closed channel
    cpc,         \* Connect: "start", "select", "scan", "done"
    ctimer,      \* the 30 s timer of waitForHandshake has fired
    handshake,   \* dmc.handshake
    cret,        \* what Connect returned
    stolen       \* ghost: the read loop took a valid handshake line that
                 \* waitForHandshake did not get

svars == <<now, connected, sock, ctxDone, responses, scalls, wire, inbox,
           rl, panicked, cpc, ctimer, handshake, cret, stolen>>

\* The inbound listener (DriverManagerServer)
VARIABLES
    conns,       \* per accepted connection: handleConnection's position, the
                 \* client it built, its timer, the lines its peer sent
    clients,     \* dms.clients: client ID -> connection
    regOrder,    \* ghost: the connections in the order handleConnection
                 \* registered them
    stopped,     \* dms.cancel() was called: dms.ctx is done
    snow         \* the last value time.Now().UnixNano() returned to handleConnection

avars == <<conns, clients, regOrder, stopped, snow>>

\* One fan-out call on the server registry (GetDriverInfo,
\* CreateDriverInstance, ExecuteDriverOperation of DriverManagerServer)
VARIABLES
    fpc,         \* its position: "idle", "loop", "returned"
    fcall,       \* the method it sends and the driver name it asks for
    fmanagers,   \* managers := dms.GetConnectedManagers(), the slice
    ftried,      \* ghost: the sendRequest calls it made, in order
    fret,        \* what it returned
    fall,        \* allDrivers of GetAllDrivers: per driver name, the
                 \* connection whose entry it holds
    fhosts,      \* per connection, the driver names its peer hosts
    fcreated     \* per connection, whether its peer holds the instance the
                 \* fan-out calls name

fvars == <<fpc, fcall, fmanagers, ftried, fret, fall, fhosts, fcreated>>

\* One Message value on its way through json.Marshal and json.Unmarshal
VARIABLES
    codec        \* the value, the line written for it, the value parsed back

kvars == <<codec>>

\* The pool of outbound sessions (DriverManagerPool)
VARIABLES
    pool         \* clients: dmp.clients, the DriverManagerClient values appended;
                 \* visits: what the loops over dmp.clients did with an element;
                 \* locks: ghost, the mutexes held when the pool's calls
                 \* accessed dmc.responses

pvars == <<pool>>

\* what the actions of each part leave alone
NotProcess == <<evars, svars, avars, fvars, kvars, pvars>>
NotConcurrent == <<hpc, hline, hout, hcalls, hpre, henv, dvars, svars, avars, fvars,
                   kvars, pvars>>

\* instance IDs the host may name
InstanceIDs == {"s1", "s2"}
\* the drivers the op package may hold, all of them in registry.drivers unless
\* a run says otherwise: "Full" implements driver.Getter and driver.Other,
\* "Basic" neither
RegistryDrivers == {"Full", "Basic"}
DriverNames == RegistryDrivers \cup {"Nope"}
Configs == {"cfgA"}
\* make(map[string]interface{}) for a config that is not a map
EmptyConfig == "{}"
Operations == {"list", "link", "get", "other", "bogus"}
MsgIDs == {"m1", "m2"}

\* *ErrorInfo; NoError is the nil pointer
ErrorInfo(code, message) == [code |-> code, message |-> message]
NoError == [code |-> 0, message |-> ""]

\* protocol.Message as a Go value
Message(id, type, method, result, error) ==
    [ID |-> id, Type |-> type, Method |-> method, Result |-> result, Error |-> error]

\* json.Marshal(msg) under the struct tags: id and type always, the others omitempty
Marshal(msg) ==
    [keys |-> {"id", "type"}
              \cup (IF msg.Method # "" THEN {"method"} ELSE {})
              \cup (IF msg.Result # Nil THEN {"result"} ELSE {})
              \cup (IF msg.Error # NoError THEN {"error"} ELSE {}),
     id |-> msg.ID, type |-> msg.Type, method |-> msg.Method,
     result |-> msg.Result, error |-> msg.Error]

\* ProtocolHandler.sendMessage: the line written on the connection
sendMessage(msg) == Marshal(msg)

\* ProtocolHandler.sendError
sendError(id, code, message) ==
    sendMessage(Message(id, "response", "", Nil, ErrorInfo(code, message)))


(***************************************************************************)
(* manager.go: DriverManager                                               *)
(***************************************************************************)
\* &DriverInstance{ID, Name, Driver, Config, Enabled: true}
DriverInstance(driverName, obj, config) ==
    [name |-> driverName, driver |-> obj, config |-> config, enabled |-> TRUE]

\* one call of a method of a driver object
Call(obj, method) == [obj |-> obj, method |-> method]

\* the driver methods that serve an operation (all but Init and Drop)
OperationMethods == {"List", "Link", "Get", "Other"}

\* what a manager operation returns and does: its error (Nil: none), its
\* result, the instance table afterwards, the driver calls it made
Ret(err, result, insts, calls) ==
    [err |-> err, result |-> result, insts |-> insts, calls |-> calls]

\* dm.instances[instanceID] = instance
Insert(insts, instanceID, inst) ==
    [x \in DOMAIN insts \cup {instanceID} |-> IF x = instanceID THEN inst ELSE insts[x]]

\* delete(dm.instances, instanceID)
Delete(insts, instanceID) ==
    [x \in DOMAIN insts \ {instanceID} |-> insts[x]]

\* DriverRegistry.GetDriver: whether the name is registered
GetDriver(driverName) == driverName \in registry

\* CreateDriverInstance without its duplicate check: the new instance replaces
\* the existing one
CreateDriverInstance_NoDuplicateCheck(insts, obj, instanceID, driverName, config, initOk) ==
    IF driverName \notin registry
    THEN [err |-> "failed to get driver info", result |-> Nil, insts |-> insts, calls |-> {}]
    ELSE IF ~initOk
    THEN [err |-> "failed to initialize driver", result |-> Nil, insts |-> insts,
          calls |-> {Call(obj, "Init")}]
    ELSE [err |-> Nil, result |-> Nil,
          insts |-> Insert(insts, instanceID, DriverInstance(driverName, obj, config)),
          calls |-> {Call(obj, "Init")}]

\* a CreateDriverInstance that puts the instance in the table before Init
CreateDriverInstance_InsertsBeforeInit(insts, obj, instanceID, driverName, config, initOk) ==
    IF instanceID \in DOMAIN insts
    THEN [err |-> "already exists", result |-> Nil, insts |-> insts, calls |-> {}]
    ELSE IF driverName \notin registry
    THEN [err |-> "failed to get driver info", result |-> Nil, insts |-> insts, calls |-> {}]
    ELSE [err |-> IF initOk THEN Nil ELSE "failed to initialize driver", result |-> Nil,
          insts |-> Insert(insts, instanceID, DriverInstance(driverName, obj, config)),
          calls |-> {Call(obj, "Init")}]

\* DriverManager.CreateDriverInstance, the whole body under dm.mutex.Lock;
\* obj is the object the constructor returns, initOk whether its Init succeeds
CreateDriverInstance(insts, obj, instanceID, driverName, config, initOk) ==
    IF instanceID \in DOMAIN insts
    THEN Ret("already exists", Nil, insts, {})
    ELSE IF ~GetDriver(driverName)
    THEN Ret("failed to get driver info", Nil, insts, {})
    ELSE IF ~initOk
    THEN Ret("failed to initialize driver", Nil, insts, {Call(obj, "Init")})
    ELSE Ret(Nil, Nil, Insert(insts, instanceID, DriverInstance(driverName, obj, config)),
             {Call(obj, "Init")})

\* DriverManager.GetDriverInstance (under dm.mutex.RLock)
GetDriverInstance(insts, instanceID) ==
    IF instanceID \in DOMAIN insts
    THEN Ret(Nil, Nil, insts, {})
    ELSE Ret("not found", Nil, insts, {})

\* RemoveDriverInstance that takes an unknown ID for a removal already done
RemoveDriverInstance_Idempotent(insts, instanceID, dropOk) ==
    IF instanceID \notin DOMAIN insts
    THEN [err |-> Nil, result |-> Nil, insts |-> insts, calls |-> {}]
    ELSE IF ~dropOk
    THEN [err |-> "failed to drop driver", result |-> Nil, insts |-> insts,
          calls |-> {Call(insts[instanceID].driver, "Drop")}]
    ELSE [err |-> Nil, result |-> Nil, insts |-> Delete(insts, instanceID),
          calls |-> {Call(insts[instanceID].driver, "Drop")}]

\* a RemoveDriverInstance that deletes the entry whatever Drop returns
RemoveDriverInstance_DeletesAnyway(insts, instanceID, dropOk) ==
    IF instanceID \notin DOMAIN insts
    THEN [err |-> "not found", result |-> Nil, insts |-> insts, calls |-> {}]
    ELSE [err |-> IF dropOk THEN Nil ELSE "failed to drop driver", result |-> Nil,
          insts |-> Delete(insts, instanceID),
          calls |-> {Call(insts[instanceID].driver, "Drop")}]

\* DriverManager.RemoveDriverInstance, the whole body under dm.mutex.Lock
RemoveDriverInstance(insts, instanceID, dropOk) ==
    IF instanceID \notin DOMAIN insts
    THEN Ret("not found", Nil, insts, {})
    ELSE IF ~dropOk
    THEN Ret("failed to drop driver", Nil, insts, {Call(insts[instanceID].driver, "Drop")})
    ELSE Ret(Nil, Nil, Delete(insts, instanceID), {Call(insts[instanceID].driver, "Drop")})

\* instance.Enabled = value, under dm.mutex.Lock and instance.mutex.Lock
SetEnabled(insts, instanceID, value) ==
    IF instanceID \notin DOMAIN insts
    THEN Ret("not found", Nil, insts, {})
    ELSE Ret(Nil, Nil, [insts EXCEPT ![instanceID].enabled = value], {})

\* DriverManager.EnableDriverInstance
EnableDriverInstance(insts, instanceID) == SetEnabled(insts, instanceID, TRUE)

\* a DisableDriverInstance that answers without writing the flag
DisableDriverInstance_NoWrite(insts, instanceID) ==
    IF instanceID \notin DOMAIN insts
    THEN Ret("not found", Nil, insts, {})
    ELSE Ret(Nil, Nil, insts, {})

\* DriverManager.DisableDriverInstance
DisableDriverInstance(insts, instanceID) == SetEnabled(insts, instanceID, FALSE)

\* DriverManager.IsDriverInstanceEnabled (under dm.mutex.RLock, instance.mutex.RLock)
IsDriverInstanceEnabled(insts, instanceID) ==
    IF instanceID \notin DOMAIN insts THEN FALSE ELSE insts[instanceID].enabled

\* instance.Driver.(driver.Getter) / instance.Driver.(driver.Other)
ImplementsGetter(inst) == inst.name = "Full"
ImplementsOther(inst) == inst.name = "Full"

\* what a driver method may return: a value, a nil value, an error
DriverOutcomes == {"value", "nil", "error"}

\* the (interface{}, error) pair a driver method call yields; typedNil says
\* whether the method's nil result is a typed nil boxed in a non-nil interface{}
DriverReturn(inst, method, outcome, typedNil, insts) ==
    CASE outcome = "error" -> Ret("driver error", Nil, insts, {Call(inst.driver, method)})
      [] outcome = "nil"   -> Ret(Nil, IF typedNil THEN JsonNull ELSE Nil, insts,
                                  {Call(inst.driver, method)})
      [] OTHER             -> Ret(Nil, method, insts, {Call(inst.driver, method)})

\* DriverManager.executeListOperation: List returns ([]model.Obj, error)
executeListOperation(inst, path, outcome, insts) ==
    IF path = Missing
    THEN Ret("path parameter is required", Nil, insts, {})
    ELSE DriverReturn(inst, "List", outcome, TRUE, insts)

\* DriverManager.executeLinkOperation: Link returns (*model.Link, error)
executeLinkOperation(inst, path, outcome, insts) ==
    IF path = Missing
    THEN Ret("path parameter is required", Nil, insts, {})
    ELSE DriverReturn(inst, "Link", outcome, TRUE, insts)

\* DriverManager.executeGetOperation: Get returns (model.Obj, error), an interface
executeGetOperation(inst, path, outcome, insts) ==
    IF ~ImplementsGetter(inst)
    THEN Ret("driver does not support get operation", Nil, insts, {})
    ELSE IF path = Missing
    THEN Ret("path parameter is required", Nil, insts, {})
    ELSE DriverReturn(inst, "Get", outcome, FALSE, insts)

\* DriverManager.executeOtherOperation: Other returns (interface{}, error)
executeOtherOperation(inst, outcome, insts) ==
    IF ~ImplementsOther(inst)
    THEN Ret("driver does not support other operation", Nil, insts, {})
    ELSE DriverReturn(inst, "Other", outcome, FALSE, insts)

\* the switch with a default case that falls back to a listing of the root
Dispatch_DefaultLists(inst, operation, path, outcome, insts) ==
    CASE operation = "link"  -> executeLinkOperation(inst, path, outcome, insts)
      [] operation = "get"   -> executeGetOperation(inst, path, outcome, insts)
      [] operation = "other" -> executeOtherOperation(inst, outcome, insts)
      [] OTHER               -> executeListOperation(inst, "/", outcome, insts)

\* the switch of DriverManager.ExecuteDriverOperation, on the instance that
\* GetDriverInstance returned
Dispatch(inst, operation, path, outcome, insts) ==
    CASE operation = "list"  -> executeListOperation(inst, path, outcome, insts)
      [] operation = "link"  -> executeLinkOperation(inst, path, outcome, insts)
      [] operation = "get"   -> executeGetOperation(inst, path, outcome, insts)
      [] operation = "other" -> executeOtherOperation(inst, outcome, insts)
      [] OTHER               -> Ret("unsupported operation", Nil, insts, {})

\* an ExecuteDriverOperation without the IsDriverInstanceEnabled check
ExecuteDriverOperation_NoEnabledCheck(insts, instanceID, operation, path, outcome) ==
    IF instanceID \notin DOMAIN insts
    THEN [err |-> "not found", result |-> Nil, insts |-> insts, calls |-> {}]
    ELSE Dispatch(insts[instanceID], operation, path, outcome, insts)

\* DriverManager.ExecuteDriverOperation when no other call runs between its steps
ExecuteDriverOperation(insts, instanceID, operation, path, outcome) ==
    IF GetDriverInstance(insts, instanceID).err # Nil
    THEN GetDriverInstance(insts, instanceID)
    ELSE IF ~IsDriverInstanceEnabled(insts, instanceID)
    THEN Ret("disabled", Nil, insts, {})
    ELSE Dispatch(insts[instanceID], operation, path, outcome, insts)

(***************************************************************************)
(* protocol.go: ProtocolHandler                                            *)
(***************************************************************************)
\* one line read from the connection: json says whether json.Unmarshal accepts
\* it; iid, driver, config, operation are msg.Params["instance_id"], ["driver"],
\* ["config"], ["operation"] (Missing: absent or of another type); path is
\* msg.Params["params"]["path"]
Line(json, id, type, method, iid, driver, config, operation, path) ==
    [json |-> json, ID |-> id, Type |-> type, Method |-> method, iid |-> iid,
     driver |-> driver, config |-> config, operation |-> operation, path |-> path]

Request(id, method, iid, driver, config, operation, path) ==
    Line(TRUE, id, "request", method, iid, driver, config, operation, path)

\* a line json.Unmarshal rejects: msg keeps its zero value
InvalidLine ==
    Line(FALSE, "", "", "", Missing, Missing, Missing, Missing, Missing)

ExecuteRequests ==
    {Request(id, "execute_operation", iid, Missing, Missing, op, path) :
        id \in MsgIDs, iid \in InstanceIDs \cup {Missing},
        op \in Operations \cup {Missing}, path \in {"/", Missing}}

\* the lines a peer may send
Lines ==
    {InvalidLine}
    \cup {Line(TRUE, id, type, "", Missing, Missing, Missing, Missing, Missing) :
            id \in MsgIDs, type \in {"ping", "bye"}}
    \cup {Request(id, method, Missing, Missing, Missing, Missing, Missing) :
            id \in MsgIDs, method \in {"list_drivers", "list_instances", "frobnicate"}}
    \cup {Request(id, "get_driver_info", Missing, driver, Missing, Missing, Missing) :
            id \in MsgIDs, driver \in DriverNames \cup {Missing}}
    \cup {Request(id, "create_instance", iid, driver, config, Missing, Missing) :
            id \in MsgIDs, iid \in InstanceIDs \cup {Missing},
            driver \in DriverNames \cup {Missing}, config \in Configs \cup {Missing}}
    \cup {Request(id, method, iid, Missing, Missing, Missing, Missing) :
            id \in MsgIDs, iid \in InstanceIDs \cup {Missing},
            method \in {"remove_instance", "enable_instance", "disable_instance"}}
    \cup ExecuteRequests

\* what handling one message comes to: the line written, the instance table
\* afterwards, the driver calls made
Reply(resp, insts, calls) == [resp |-> resp, insts |-> insts, calls |-> calls]

\* the response a handler writes for the outcome r of a manager operation
Respond(msg, r, result) ==
    IF r.err # Nil
    THEN Reply(sendError(msg.ID, 500, r.err), r.insts, r.calls)
    ELSE Reply(sendMessage(Message(msg.ID, "response", "", result, NoError)),
               r.insts, r.calls)

\* registry.loadDrivers: the names of op.GetDriverInfoMap() for which
\* op.GetDriver finds a constructor
loadDrivers(driverInfoMap, driverMap) == {name \in driverInfoMap : name \in driverMap}

\* DriverRegistry.ListDrivers: a copy of the map, name -> *DriverInfo
ListDrivers(reg) == [name \in reg |-> [Name |-> name]]

\* a count of the drivers the op package holds instead of those registered
GetDriverCount_OpPackage(reg) == Cardinality(RegistryDrivers)

\* DriverRegistry.GetDriverCount: len(r.drivers)
GetDriverCount(reg) == Cardinality(reg)

\* --manager-id
ManagerID == "dm-1"

\* json.Marshal of a message whose Result is a non-nil map: result is written
MarshalMap(msg) ==
    [keys |-> {"id", "type", "result"}, id |-> msg.ID, type |-> msg.Type,
     method |-> "", result |-> msg.Result, error |-> NoError]

\* ProtocolHandler.SendHandshake: the line it writes; driverInfo gets one entry
\* for each entry of registry.ListDrivers()
HandshakeMessage(managerID, reg) ==
    LET drivers == ListDrivers(reg)
        driverInfo == [name \in DOMAIN drivers |-> [name |-> drivers[name].Name]]
    IN MarshalMap(Message("handshake", "handshake", "",
                          [manager_id |-> managerID,
                           driver_count |-> GetDriverCount(reg),
                           drivers |-> driverInfo],
                          NoError))

\* a processMessage whose switch has no case for ping
handlePing_UnknownType(msg, insts) ==
    [resp |-> sendError(msg.ID, 400, "Unknown message type"), insts |-> insts,
     calls |-> {}]

\* ProtocolHandler.handlePing
handlePing(msg, insts) ==
    Reply(sendMessage(Message(msg.ID, "response", "", "pong", NoError)), insts, {})

\* ProtocolHandler.handleListDrivers
handleListDrivers(msg, insts) ==
    Reply(sendMessage(Message(msg.ID, "response", "", "drivers", NoError)), insts, {})

\* ProtocolHandler.handleGetDriverInfo
handleGetDriverInfo(msg, insts) ==
    IF msg.driver = Missing
    THEN Reply(sendError(msg.ID, 400, "driver parameter is required"), insts, {})
    ELSE IF ~GetDriver(msg.driver)
    THEN Reply(sendError(msg.ID, 404, "driver not found"), insts, {})
    ELSE Reply(sendMessage(Message(msg.ID, "response", "", "info", NoError)), insts, {})

\* ProtocolHandler.handleCreateInstance
handleCreateInstance(msg, insts, obj, initOk) ==
    IF msg.iid = Missing
    THEN Reply(sendError(msg.ID, 400, "instance_id parameter is required"), insts, {})
    ELSE IF msg.driver = Missing
    THEN Reply(sendError(msg.ID, 400, "driver parameter is required"), insts, {})
    ELSE Respond(msg,
                 CreateDriverInstance(insts, obj, msg.iid, msg.driver,
                     IF msg.config = Missing THEN EmptyConfig ELSE msg.config, initOk),
                 "success")

\* ProtocolHandler.handleRemoveInstance
handleRemoveInstance(msg, insts, dropOk) ==
    IF msg.iid = Missing
    THEN Reply(sendError(msg.ID, 400, "instance_id parameter is required"), insts, {})
    ELSE Respond(msg, RemoveDriverInstance(insts, msg.iid, dropOk), "success")

\* ProtocolHandler.handleListInstances
handleListInstances(msg, insts) ==
    Reply(sendMessage(Message(msg.ID, "response", "", "instances", NoError)), insts, {})

\* ProtocolHandler.handleEnableInstance
handleEnableInstance(msg, insts) ==
    IF msg.iid = Missing
    THEN Reply(sendError(msg.ID, 400, "instance_id parameter is required"), insts, {})
    ELSE Respond(msg, EnableDriverInstance(insts, msg.iid), "success")

\* ProtocolHandler.handleDisableInstance
handleDisableInstance(msg, insts) ==
    IF msg.iid = Missing
    THEN Reply(sendError(msg.ID, 400, "instance_id parameter is required"), insts, {})
    ELSE Respond(msg, DisableDriverInstance(insts, msg.iid), "success")

\* ProtocolHandler.handleExecuteOperation
handleExecuteOperation(msg, insts, outcome) ==
    IF msg.iid = Missing
    THEN Reply(sendError(msg.ID, 400, "instance_id parameter is required"), insts, {})
    ELSE IF msg.operation = Missing
    THEN Reply(sendError(msg.ID, 400, "operation parameter is required"), insts, {})
    ELSE LET r == ExecuteDriverOperation(insts, msg.iid, msg.operation, msg.path, outcome)
         IN Respond(msg, r, r.result)

\* ProtocolHandler.handleRequest
handleRequest(msg, insts, obj, initOk, dropOk, outcome) ==
    CASE msg.Method = "list_drivers"     -> handleListDrivers(msg, insts)
      [] msg.Method = "get_driver_info"  -> handleGetDriverInfo(msg, insts)
      [] msg.Method = "create_instance"  -> handleCreateInstance(msg, insts, obj, initOk)
      [] msg.Method = "remove_instance"  -> handleRemoveInstance(msg, insts, dropOk)
      [] msg.Method = "list_instances"   -> handleListInstances(msg, insts)
      [] msg.Method = "enable_instance"  -> handleEnableInstance(msg, insts)
      [] msg.Method = "disable_instance" -> handleDisableInstance(msg, insts)
      [] msg.Method = "execute_operation" -> handleExecuteOperation(msg, insts, outcome)
      [] OTHER -> Reply(sendError(msg.ID, 400, "Unknown method"), insts, {})

\* a processMessage that drops a line json.Unmarshal rejects
processMessage_DropsInvalid(line, insts, obj, initOk, dropOk, outcome) ==
    IF ~line.json
    THEN Reply([keys |-> {}, id |-> "", type |-> "", method |-> "", result |-> Nil,
                error |-> NoError], insts, {})
    ELSE CASE line.Type = "request" -> handleRequest(line, insts, obj, initOk, dropOk, outcome)
           [] line.Type = "ping"    -> handlePing(line, insts)
           [] OTHER -> Reply(sendError(line.ID, 400, "Unknown message type"), insts, {})

\* ProtocolHandler.processMessage
processMessage(line, insts, obj, initOk, dropOk, outcome) ==
    IF ~line.json
    THEN Reply(sendError(line.ID, 400, "Invalid JSON"), insts, {})
    ELSE CASE line.Type = "request" -> handleRequest(line, insts, obj, initOk, dropOk, outcome)
           [] line.Type = "ping"    -> handlePing(line, insts)
           [] OTHER -> Reply(sendError(line.ID, 400, "Unknown message type"), insts, {})

(***************************************************************************)
(* The driver-manager process as a state machine: main.go runs one         *)
(* connection at a time (runConnectionManager), so one ProtocolHandler     *)
(* handles the lines of the connection one after the other.                *)
(***************************************************************************)
NoInstance == [name |-> "", driver |-> 0, config |-> "", enabled |-> FALSE]

\* the entry of an instance ID, as a set (empty: absent)
Entry(insts, iid) == IF iid \in DOMAIN insts THEN {insts[iid]} ELSE {}

\* ghost: which successful call of Enable and Disable took the lock last for
\* each instance ID; "none" for an instance nobody toggled since it was created
Toggled(toggle, method, target, before, after) ==
    [iid \in InstanceIDs |->
        IF iid # target THEN toggle[iid]
        ELSE IF Entry(before, iid) = {} /\ Entry(after, iid) # {} THEN "none"
        ELSE IF Entry(before, iid) = {} THEN toggle[iid]
        ELSE IF method = "enable_instance" THEN "enable"
        ELSE IF method = "disable_instance" THEN "disable"
        ELSE toggle[iid]]

\* nothing written yet in this pass of the loop
NoOutput ==
    [keys |-> {}, id |-> "", type |-> "", method |-> "", result |-> Nil, error |-> NoError]

NoInstances == [x \in {} |-> NoInstance]

\* what the driver answers: whether Init and Drop succeed, what an operation returns
Env(initOk, dropOk, outcome) == [initOk |-> initOk, dropOk |-> dropOk, outcome |-> outcome]
NoEnv == Env(TRUE, TRUE, "value")

\* ghost: nothing written yet on the connection: hs counts its handshake
\* messages, hello is the last of them, served says that a response was
\* written, early that one was written before the first handshake
NoWrites == [hs |-> 0, hello |-> NoOutput, served |-> FALSE, early |-> FALSE]

\* NewDriverManager: no instance, the handler not started
MIdle ==
    /\ instances = NoInstances
    /\ nextObj = 1
    /\ lastToggle = [iid \in InstanceIDs |-> "none"]
    /\ hpc = "scan"
    /\ hline = InvalidLine
    /\ hout = NoOutput
    /\ hcalls = {}
    /\ hpre = NoInstances
    /\ henv = NoEnv

\* the process inside Handle on its first connection, every driver registered
MInit ==
    /\ MIdle
    /\ registry = loadDrivers(RegistryDrivers, RegistryDrivers)
    /\ dpc = "handle"
    /\ dconn = [NoWrites EXCEPT !.hs = 1, !.hello = HandshakeMessage(ManagerID, registry)]

\* main: registry.NewDriverRegistry() over what the op package holds, and
\* runConnectionManager about to start
MInitDial ==
    /\ MIdle
    /\ registry \in {loadDrivers(driverInfoMap, driverMap) :
                        driverInfoMap \in SUBSET RegistryDrivers,
                        driverMap \in SUBSET RegistryDrivers}
    /\ dpc = "dial"
    /\ dconn = NoWrites

handlerVars == <<hpc, hline, hout, hcalls, hpre, henv>>
tableVars == <<instances, nextObj, lastToggle>>

\* runConnectionManager: the head of its loop, which returns when main has
\* cancelled ctx, and connectToOpenList's net.DialTimeout
\* a connectToOpenList that builds a new DriverManager for each connection
DialOpenList_FreshManager ==
    /\ dpc = "dial"
    /\ dpc' = "connected"
    /\ dconn' = NoWrites
    /\ instances' = NoInstances
    /\ UNCHANGED <<registry, nextObj, lastToggle, handlerVars>>
    /\ UNCHANGED NotProcess

DialOpenList ==
    /\ dpc = "dial"
    /\ \E done \in BOOLEAN, dialed \in BOOLEAN :
        IF done
        THEN /\ dpc' = "exit"
             /\ UNCHANGED dconn
        ELSE /\ dpc' = IF dialed THEN "connected" ELSE "retry"
             /\ dconn' = NoWrites
    /\ UNCHANGED <<registry, tableVars, handlerVars>>
    /\ UNCHANGED NotProcess

\* a handshake written a second time
WriteHandshake_Twice(writes, line) == [writes EXCEPT !.hs = @ + 2, !.hello = line]

\* SendHandshake: ph.sendMessage(handshake), once
WriteHandshake(writes, line) == [writes EXCEPT !.hs = @ + 1, !.hello = line]

\* connectToOpenList: protocolHandler.SendHandshake(*managerID); a failed
\* write ends the connection
SendHandshake ==
    /\ dpc = "connected"
    /\ \E written \in BOOLEAN :
        IF written
        THEN /\ dconn' = WriteHandshake(dconn, HandshakeMessage(ManagerID, registry))
             /\ dpc' = "handle"
        ELSE /\ dpc' = "retry"
             /\ UNCHANGED dconn
    /\ UNCHANGED <<registry, tableVars, handlerVars>>
    /\ UNCHANGED NotProcess

\* a Handle that reads the next line while the line before it is still being
\* processed
Scan_Overtakes ==
    /\ dpc = "handle"
    /\ hpc \in {"scan", "process"}
    /\ \E line \in Lines :
        /\ hline' = line
        /\ hpc' = "process"
    /\ UNCHANGED <<instances, nextObj, lastToggle, hout, hcalls, hpre, henv>>
    /\ UNCHANGED dvars
    /\ UNCHANGED NotProcess

\* Handle: ph.scanner.Scan() returns the next line of the connection; when
\* main has cancelled ctx, Handle returns ctx.Err(), the line is dropped and
\* runConnectionManager returns from its select
Scan ==
    /\ dpc = "handle"
    /\ hpc = "scan"
    /\ \E line \in Lines, done \in BOOLEAN :
        IF done
        THEN /\ dpc' = "exit"
             /\ UNCHANGED <<hline, hpc>>
        ELSE /\ hline' = line
             /\ hpc' = "process"
             /\ UNCHANGED dpc
    /\ UNCHANGED <<instances, nextObj, lastToggle, hout, hcalls, hpre, henv>>
    /\ UNCHANGED <<registry, dconn>>
    /\ UNCHANGED NotProcess

\* Handle: ph.scanner.Scan() returns false (the host closed the connection or
\* reading failed) and connectToOpenList returns, closing the connection
HandleReturns ==
    /\ dpc = "handle"
    /\ hpc = "scan"
    /\ \E err \in BOOLEAN : dpc' = IF err THEN "retry" ELSE "dial"
    /\ UNCHANGED <<registry, dconn, tableVars, handlerVars>>
    /\ UNCHANGED NotProcess

\* a runConnectionManager that returns after a failed connectToOpenList
ReconnectWait_GivesUp ==
    /\ dpc = "retry"
    /\ dpc' = "gave up"
    /\ UNCHANGED <<registry, dconn, tableVars, handlerVars>>
    /\ UNCHANGED NotProcess

\* runConnectionManager: the select after a failed connectToOpenList, on
\* ctx.Done() and time.After(*reconnectInterval)
ReconnectWait ==
    /\ dpc = "retry"
    /\ \E done \in BOOLEAN : dpc' = IF done THEN "exit" ELSE "dial"
    /\ UNCHANGED <<registry, dconn, tableVars, handlerVars>>
    /\ UNCHANGED NotProcess

\* the choices of the drivers that a line does not reach are fixed
Relevant(line, initOk, dropOk, outcome) ==
    /\ line.Method # "create_instance" => initOk
    /\ line.Method # "remove_instance" => dropOk
    /\ line.Method # "execute_operation" => outcome = "value"

\* Handle: ph.processMessage(ctx, line), to the response written; when the
\* write fails processMessage returns the error, Handle returns and
\* connectToOpenList closes the connection
Process ==
    /\ hpc = "process"
    /\ \E initOk \in BOOLEAN, dropOk \in BOOLEAN, outcome \in DriverOutcomes,
          written \in BOOLEAN :
        /\ Relevant(hline, initOk, dropOk, outcome)
        /\ LET reply == processMessage(hline, instances, nextObj, initOk, dropOk, outcome)
               built == hline.Method = "create_instance" /\ reply.insts # instances
           IN /\ built => nextObj <= MaxObjs
              /\ instances' = reply.insts
              /\ nextObj' = IF built THEN nextObj + 1 ELSE nextObj
              /\ lastToggle' = Toggled(lastToggle, hline.Method, hline.iid,
                                       instances, reply.insts)
              /\ IF written
                 THEN /\ hout' = reply.resp
                      /\ hcalls' = reply.calls
                      /\ hpre' = instances
                      /\ henv' = Env(initOk, dropOk, outcome)
                      /\ hpc' = "sent"
                      /\ dconn' = [dconn EXCEPT !.served = TRUE,
                                                  !.early = (@ \/ dconn.hs = 0)]
                      /\ UNCHANGED <<hline, dpc>>
                 ELSE /\ hout' = NoOutput
                      /\ hcalls' = {}
                      /\ hpre' = NoInstances
                      /\ henv' = NoEnv
                      /\ hpc' = "scan"
                      /\ hline' = InvalidLine
                      /\ dpc' = "retry"
                      /\ UNCHANGED dconn
    /\ UNCHANGED registry
    /\ UNCHANGED NotProcess

\* Handle: back to the head of the scan loop
Loop ==
    /\ hpc = "sent"
    /\ hpc' = "scan"
    /\ hline' = InvalidLine
    /\ hout' = NoOutput
    /\ hcalls' = {}
    /\ hpre' = NoInstances
    /\ henv' = NoEnv
    /\ UNCHANGED <<instances, nextObj, lastToggle>>
    /\ UNCHANGED dvars
    /\ UNCHANGED NotProcess

MNext ==
    \/ DialOpenList
    \/ SendHandshake
    \/ Scan
    \/ HandleReturns
    \/ Process
    \/ Loop
    \/ ReconnectWait

(***************************************************************************)
(* DriverManager under concurrent callers: the methods that hold dm.mutex  *)
(* for their whole body are one step each; ExecuteDriverOperation takes    *)
(* the read lock twice and calls the driver with no lock held, so other    *)
(* calls run between its steps.                                            *)
(***************************************************************************)
ExecArgs(instanceID, operation, path) ==
    [iid |-> instanceID, operation |-> operation, path |-> path]

NoArgs == ExecArgs(Missing, Missing, Missing)
NoRet == Ret(Nil, Nil, NoInstances, {})
NoGhost == [present |-> FALSE, enabled |-> FALSE, toggle |-> "none", touched |-> FALSE]

\* the operations the followed Execute call is made with
ConcurrentOperations == {"list", "other", "bogus"}

EInit ==
    /\ epc = "idle"
    /\ ereq = NoArgs
    /\ einst = NoInstance
    /\ eret = NoRet
    /\ eghost = NoGhost

\* ghost: the followed Execute saw the entry of its instance ID change
Touch(after) ==
    IF epc \in {"check", "dispatch"} /\ Entry(instances, ereq.iid) # Entry(after, ereq.iid)
    THEN [eghost EXCEPT !.touched = TRUE]
    ELSE eghost

\* a caller runs a method that holds dm.mutex.Lock for its whole body
Locked(method, instanceID, r) ==
    /\ instances' = r.insts
    /\ lastToggle' = Toggled(lastToggle, method, instanceID, instances, r.insts)
    /\ eghost' = Touch(r.insts)
    /\ UNCHANGED <<epc, ereq, einst, eret>>
    /\ UNCHANGED NotConcurrent

\* some caller: CreateDriverInstance
CallCreate ==
    \E iid \in InstanceIDs, driverName \in DriverNames, initOk \in BOOLEAN :
        LET r == CreateDriverInstance(instances, nextObj, iid, driverName, "cfgA", initOk)
        IN /\ r.insts # instances => nextObj <= MaxObjs
           /\ nextObj' = IF r.insts # instances THEN nextObj + 1 ELSE nextObj
           /\ Locked("create_instance", iid, r)

\* some caller: RemoveDriverInstance
CallRemove ==
    \E iid \in InstanceIDs, dropOk \in BOOLEAN :
        /\ Locked("remove_instance", iid, RemoveDriverInstance(instances, iid, dropOk))
        /\ UNCHANGED nextObj

\* some caller: EnableDriverInstance
CallEnable ==
    \E iid \in InstanceIDs :
        /\ Locked("enable_instance", iid, EnableDriverInstance(instances, iid))
        /\ UNCHANGED nextObj

\* some caller: DisableDriverInstance
CallDisable ==
    \E iid \in InstanceIDs :
        /\ Locked("disable_instance", iid, DisableDriverInstance(instances, iid))
        /\ UNCHANGED nextObj

\* ExecuteDriverOperation: the call and its GetDriverInstance
ExecStart ==
    /\ epc = "idle"
    /\ \E iid \in InstanceIDs, operation \in ConcurrentOperations :
        /\ ereq' = ExecArgs(iid, operation, "/")
        /\ eghost' = [present |-> iid \in DOMAIN instances,
                      enabled |-> IsDriverInstanceEnabled(instances, iid),
                      toggle |-> lastToggle[iid], touched |-> FALSE]
        /\ IF GetDriverInstance(instances, iid).err # Nil
           THEN /\ epc' = "returned"
                /\ eret' = [GetDriverInstance(instances, iid) EXCEPT !.insts = NoInstances]
                /\ UNCHANGED einst
           ELSE /\ epc' = "check"
                /\ einst' = instances[iid]
                /\ UNCHANGED eret
    /\ UNCHANGED <<instances, nextObj, lastToggle>>
    /\ UNCHANGED NotConcurrent

\* ExecuteDriverOperation: the IsDriverInstanceEnabled check
ExecCheck ==
    /\ epc = "check"
    /\ IF IsDriverInstanceEnabled(instances, ereq.iid)
       THEN /\ epc' = "dispatch"
            /\ UNCHANGED eret
       ELSE /\ epc' = "returned"
            /\ eret' = Ret("disabled", Nil, NoInstances, {})
    /\ UNCHANGED <<instances, nextObj, lastToggle, ereq, einst, eghost>>
    /\ UNCHANGED NotConcurrent

\* ExecuteDriverOperation: the switch and the driver call, no lock held
ExecDispatch ==
    /\ epc = "dispatch"
    /\ \E outcome \in DriverOutcomes :
         eret' = Dispatch(einst, ereq.operation, ereq.path, outcome, NoInstances)
    /\ epc' = "returned"
    /\ UNCHANGED <<instances, nextObj, lastToggle, ereq, einst, eghost>>
    /\ UNCHANGED NotConcurrent

\* the caller of ExecuteDriverOperation goes on
ExecDone ==
    /\ epc = "returned"
    /\ epc' = "idle"
    /\ ereq' = NoArgs
    /\ einst' = NoInstance
    /\ eret' = NoRet
    /\ eghost' = NoGhost
    /\ UNCHANGED <<instances, nextObj, lastToggle>>
    /\ UNCHANGED NotConcurrent

ENext ==
    \/ CallCreate
    \/ CallRemove
    \/ CallEnable
    \/ CallDisable
    \/ ExecStart
    \/ ExecCheck
    \/ ExecDispatch
    \/ ExecDone

(***************************************************************************)
(* A host-side stream session.  DriverManagerClient (outbound) and         *)
(* DriverManagerConnection (inbound) have the same sendRequest and the     *)
(* same processMessages; the outbound one is followed here.                *)
(***************************************************************************)
Methods == {"list_drivers", "get_driver_info"}

\* a line of the connection as the host reads it: text is "blank", "garbage"
\* (not JSON) or "json"; re is a ghost, the call whose request a response answers
HostLine(text, type, id, result, error, re) ==
    [text |-> text, Type |-> type, ID |-> id, Result |-> result, Error |-> error, re |-> re]

NoLine == HostLine("blank", "", "", Nil, FALSE, 0)

\* what the peer may write besides the responses to requests
PeerLines ==
    { NoLine,
      HostLine("garbage", "", "", Nil, FALSE, 0),
      HostLine("json", "handshake", "handshake", "info", FALSE, 0),
      HostLine("json", "handshake", "handshake", "bad", FALSE, 0),
      HostLine("json", "handshake", "hello", "info2", FALSE, 0),
      HostLine("json", "ping", "p1", Nil, FALSE, 0) }

\* sendRequest: id := fmt.Sprintf("%s-%d", method, time.Now().UnixNano())
NewID(method, t) == method \o "-" \o ToString(t)

\* sendRequest: dmc.responses[id] = respCh
Register(table, id, ch) ==
    [i \in DOMAIN table \cup {id} |-> IF i = id THEN ch ELSE table[i]]

\* a sendRequest that leaves its entry in the table
deferDelete_Skipped(table, id) == table

\* sendRequest, deferred: delete(dmc.responses, id)
deferDelete(table, id) == [i \in DOMAIN table \ {id} |-> table[i]]

\* a sendRequest call with its respCh := make(chan Message, 1): the buffer of
\* the channel and whether it is closed
NoCall ==
    [pc |-> "idle", method |-> "", id |-> "", buf |-> <<>>, closed |-> FALSE,
     ret |-> Nil, re |-> 0, arrived |-> FALSE]

NoTable == [i \in {} |-> 0]

Idle == [pc |-> "scan", msg |-> NoLine, ch |-> 0]

\* processMessages: the line is a response whose ID has a registered channel
Deliverable(line, table) ==
    /\ line.text = "json"
    /\ line.Type # "handshake"
    /\ line.Type = "response" /\ line.ID # ""
    /\ line.ID \in DOMAIN table

\* a read loop that takes the payload of every handshake message it reads
LoopHandshake_Captures(info, line) ==
    IF line.text = "json" /\ line.Type = "handshake" THEN line.Result ELSE info

\* processMessages: if msg.Type == "handshake" { continue }, dmc.handshake
\* is left as it is
LoopHandshake(info, line) == info

\* waitForHandshake of the outbound client on one line: "again", "ok" or "parse"
ClientHandshakeLine(line) ==
    IF line.text # "json" THEN "again"
    ELSE IF line.Type = "handshake" /\ line.ID = "handshake"
         THEN IF line.Result = "bad" THEN "parse" ELSE "ok"
    ELSE "again"

\* the session before Connect
SInitDial ==
    /\ now = 0
    /\ connected = FALSE
    /\ sock = "none"
    /\ ctxDone = FALSE
    /\ responses = NoTable
    /\ scalls = <<>>
    /\ wire = {}
    /\ inbox = <<>>
    /\ rl = [Idle EXCEPT !.pc = "none"]
    /\ panicked = FALSE
    /\ cpc = "start"
    /\ ctimer = FALSE
    /\ handshake = Nil
    /\ cret = Nil
    /\ stolen = FALSE

\* the session after a Connect that returned nil
SInitConnected ==
    /\ now = 0
    /\ connected = TRUE
    /\ sock = "open"
    /\ ctxDone = FALSE
    /\ responses = NoTable
    /\ scalls = <<>>
    /\ wire = {}
    /\ inbox = <<>>
    /\ rl = Idle
    /\ panicked = FALSE
    /\ cpc = "done"
    /\ ctimer = FALSE
    /\ handshake = "info"
    /\ cret = "ok"
    /\ stolen = FALSE

connectVars == <<cpc, ctimer, handshake, cret, stolen>>
NotSession == <<mvars, dvars, evars, avars, fvars, kvars, pvars>>

\* sendRequest returns: the deferred delete(dmc.responses, id) and close(respCh)
\* run; arrived is a ghost, a response was put in respCh before the call ended
Return(k, ret, re) ==
    /\ scalls' = [scalls EXCEPT ![k] =
           [@ EXCEPT !.pc = "returned", !.ret = ret, !.re = re, !.closed = TRUE,
                     !.buf = <<>>, !.arrived = (scalls[k].buf # <<>>)]]
    /\ responses' = deferDelete(responses, scalls[k].id)

\* a sendRequest without the IsConnected check
sendRequestOn_NoCheck(isConnected) ==
    /\ ~panicked
    /\ Len(scalls) < MaxCalls
    /\ \E method \in Methods, t \in {now, now + 1} :
            /\ now' = t
            /\ responses' = Register(responses, NewID(method, t), Len(scalls) + 1)
            /\ scalls' = Append(scalls, [NoCall EXCEPT !.pc = "registered",
                                           !.method = method, !.id = NewID(method, t)])
    /\ UNCHANGED <<connected, sock, ctxDone, wire, inbox, rl, panicked>>
    /\ UNCHANGED connectVars

\* sendRequest on a client value whose connected field is isConnected: the
\* IsConnected check, the ID, the channel and its registration in the map
\* dmc.responses refers to
sendRequestOn(isConnected) ==
    /\ ~panicked
    /\ Len(scalls) < MaxCalls
    /\ IF ~isConnected
       THEN /\ scalls' = Append(scalls, [NoCall EXCEPT !.pc = "returned",
                                                     !.ret = "not connected"])
            /\ UNCHANGED <<now, responses>>
       ELSE \E method \in Methods, t \in {now, now + 1} :
                /\ now' = t
                /\ responses' = Register(responses, NewID(method, t), Len(scalls) + 1)
                /\ scalls' = Append(scalls, [NoCall EXCEPT !.pc = "registered",
                                               !.method = method, !.id = NewID(method, t)])
    /\ UNCHANGED <<connected, sock, ctxDone, wire, inbox, rl, panicked>>
    /\ UNCHANGED connectVars

\* a goroutine calls sendRequest on the session
SendRequestStart ==
    /\ sendRequestOn(connected)
    /\ UNCHANGED NotSession

\* sendRequest: json.Marshal(request) and dmc.conn.Write
SendRequestWrite(k) ==
    /\ ~panicked
    /\ scalls[k].pc = "registered"
    /\ \E outcome \in {"marshal", "write", "written"} :
        /\ outcome = "written" => sock # "closed"
        /\ IF outcome = "written"
           THEN /\ scalls' = [scalls EXCEPT ![k].pc = "waiting"]
                /\ wire' = IF sock = "open"
                           THEN wire \cup {[id |-> scalls[k].id, call |-> k]}
                           ELSE wire
                /\ UNCHANGED responses
           ELSE /\ Return(k, IF outcome = "marshal" THEN "failed to marshal request"
                             ELSE "failed to send request", 0)
                /\ UNCHANGED wire
    /\ UNCHANGED <<now, connected, sock, ctxDone, inbox, rl, panicked>>
    /\ UNCHANGED <<connectVars, NotSession>>

\* sendRequest: 30 s pass and the select takes <-timeout.C
SendRequestTimeout(k) ==
    /\ ~panicked
    /\ scalls[k].pc = "waiting"
    /\ Return(k, "request timeout", 0)
    /\ UNCHANGED <<now, connected, sock, ctxDone, wire, inbox, rl, panicked>>
    /\ UNCHANGED <<connectVars, NotSession>>

\* sendRequest: the caller's ctx is cancelled and the select takes <-ctx.Done()
SendRequestCancelled(k) ==
    /\ ~panicked
    /\ scalls[k].pc = "waiting"
    /\ Return(k, "context canceled", 0)
    /\ UNCHANGED <<now, connected, sock, ctxDone, wire, inbox, rl, panicked>>
    /\ UNCHANGED <<connectVars, NotSession>>

\* sendRequest: the select takes response := <-respCh
SendRequestReceive(k) ==
    /\ ~panicked
    /\ scalls[k].pc = "waiting"
    /\ scalls[k].buf # <<>>
    /\ Return(k, IF Head(scalls[k].buf).Error THEN "driver manager error" ELSE "result",
              Head(scalls[k].buf).re)
    /\ UNCHANGED <<now, connected, sock, ctxDone, wire, inbox, rl, panicked>>
    /\ UNCHANGED <<connectVars, NotSession>>

\* the caller of sendRequest goes on with what it returned
SendRequestDone(k) ==
    /\ ~panicked
    /\ scalls[k].pc = "returned"
    /\ scalls' = [scalls EXCEPT ![k] = [NoCall EXCEPT !.pc = "gone", !.closed = TRUE]]
    /\ UNCHANGED <<now, connected, sock, ctxDone, responses, wire, inbox, rl, panicked>>
    /\ UNCHANGED <<connectVars, NotSession>>

\* the peer answers a request it received
PeerRespond ==
    /\ ~panicked
    /\ sock = "open"
    /\ \E req \in wire, error \in BOOLEAN :
        /\ inbox' = Append(inbox, HostLine("json", "response", req.id,
                                           IF error THEN Nil ELSE "value", error, req.call))
        /\ wire' = wire \ {req}
    /\ UNCHANGED <<now, connected, sock, ctxDone, responses, scalls, rl, panicked>>
    /\ UNCHANGED <<connectVars, NotSession>>

\* the peer writes another line
PeerSend ==
    /\ ~panicked
    /\ sock = "open"
    /\ Len(inbox) < MaxInbox
    /\ \E line \in PeerLines : inbox' = Append(inbox, line)
    /\ UNCHANGED <<now, connected, sock, ctxDone, responses, scalls, wire, rl,
                   panicked>>
    /\ UNCHANGED <<connectVars, NotSession>>

\* the peer closes the connection
PeerClose ==
    /\ ~panicked
    /\ sock = "open"
    /\ sock' = "peer_closed"
    /\ UNCHANGED <<now, connected, ctxDone, responses, scalls, wire, inbox, rl,
                   panicked>>
    /\ UNCHANGED <<connectVars, NotSession>>

\* Close, called on a session whose Connect returned nil
Close ==
    /\ ~panicked
    /\ cpc = "done" /\ cret = "ok"
    /\ sock # "closed"
    /\ connected' = FALSE
    /\ sock' = "closed"
    /\ UNCHANGED <<now, ctxDone, responses, scalls, wire, inbox, rl, panicked>>
    /\ UNCHANGED <<connectVars, NotSession>>

\* DriverManagerServer.Stop as one registered session sees it: dms.cancel()
\* and client.Close()
SessionStopped ==
    /\ ~panicked
    /\ cpc = "done" /\ cret = "ok"
    /\ sock # "closed"
    /\ ~ctxDone
    /\ ctxDone' = TRUE
    /\ connected' = FALSE
    /\ sock' = "closed"
    /\ UNCHANGED <<now, responses, scalls, wire, inbox, rl, panicked>>
    /\ UNCHANGED <<connectVars, NotSession>>

\* the context given to Connect is cancelled
CancelContext ==
    /\ ~panicked
    /\ sock # "none"
    /\ ~ctxDone
    /\ ctxDone' = TRUE
    /\ UNCHANGED <<now, connected, sock, responses, scalls, wire, inbox, rl,
                   panicked>>
    /\ UNCHANGED <<connectVars, NotSession>>

\* processMessages: dmc.scanner.Scan() returns, and the line is looked up
RLScan ==
    /\ ~panicked
    /\ rl.pc = "scan"
    /\ IF inbox # <<>>
       THEN /\ inbox' = Tail(inbox)
            /\ handshake' = IF ctxDone THEN handshake
                            ELSE LoopHandshake(handshake, Head(inbox))
            /\ stolen' = (stolen \/ (cpc # "done" /\ ClientHandshakeLine(Head(inbox)) = "ok"))
            /\ IF ctxDone
               THEN /\ rl' = [Idle EXCEPT !.pc = "ended"]
                    /\ connected' = FALSE
               ELSE /\ rl' = IF Deliverable(Head(inbox), responses)
                             THEN [pc |-> "send", msg |-> Head(inbox),
                                   ch |-> responses[Head(inbox).ID]]
                             ELSE rl
                    /\ UNCHANGED connected
       ELSE /\ sock \in {"peer_closed", "closed"}
            /\ rl' = [Idle EXCEPT !.pc = "ended"]
            /\ connected' = FALSE
            /\ UNCHANGED <<inbox, stolen, handshake>>
    /\ UNCHANGED <<now, sock, ctxDone, responses, scalls, wire, panicked>>
    /\ UNCHANGED <<cpc, ctimer, cret, NotSession>>

\* processMessages: select { case ch <- msg: case <-time.After(5 * time.Second): }
RLSend ==
    /\ ~panicked
    /\ rl.pc = "send"
    /\ IF scalls[rl.ch].closed
       THEN /\ panicked' = TRUE
            /\ UNCHANGED <<scalls, rl>>
       ELSE /\ scalls' = IF scalls[rl.ch].buf = <<>>
                        THEN [scalls EXCEPT ![rl.ch].buf = <<rl.msg>>]
                        ELSE scalls
            /\ rl' = Idle
            /\ UNCHANGED panicked
    /\ UNCHANGED <<now, connected, sock, ctxDone, responses, wire, inbox>>
    /\ UNCHANGED <<connectVars, NotSession>>

SNext ==
    \/ SendRequestStart
    \/ \E k \in DOMAIN scalls : SendRequestWrite(k)
    \/ \E k \in DOMAIN scalls : SendRequestTimeout(k)
    \/ \E k \in DOMAIN scalls : SendRequestCancelled(k)
    \/ \E k \in DOMAIN scalls : SendRequestReceive(k)
    \/ \E k \in DOMAIN scalls : SendRequestDone(k)
    \/ PeerRespond
    \/ PeerSend
    \/ PeerClose
    \/ Close
    \/ SessionStopped
    \/ CancelContext
    \/ RLScan
    \/ RLSend

(***************************************************************************)
(* Outbound Connect (DriverManagerClient): it starts processMessages and   *)
(* then runs waitForHandshake; both goroutines call dmc.scanner.Scan() on  *)
(* the same bufio.Scanner with no lock.  A line goes to the one that scans *)
(* it; when both are inside Scan at once (a data race) both may come out   *)
(* with the same token.                                                    *)
(***************************************************************************)
\* Connect returns err after dmc.Close()
ConnectFails(err) ==
    /\ cpc' = "done"
    /\ cret' = err
    /\ connected' = FALSE
    /\ sock' = "closed"

\* Connect: net.DialTimeout, go dmc.processMessages(ctx), the timer of
\* waitForHandshake
Connect ==
    /\ cpc = "start"
    /\ \E dialed \in BOOLEAN :
        IF dialed
        THEN /\ sock' = "open"
             /\ connected' = TRUE
             /\ rl' = Idle
             /\ cpc' = "select"
             /\ UNCHANGED cret
        ELSE /\ cpc' = "done"
             /\ cret' = "failed to connect"
             /\ UNCHANGED <<sock, connected, rl>>
    /\ UNCHANGED <<now, ctxDone, responses, scalls, wire, inbox, panicked, ctimer,
                   handshake, stolen, NotSession>>

\* waitForHandshake: 30 s have passed since time.NewTimer
TimerFire ==
    /\ cpc \in {"select", "scan"}
    /\ ~ctimer
    /\ ctimer' = TRUE
    /\ UNCHANGED <<now, connected, sock, ctxDone, responses, scalls, wire, inbox, rl,
                   panicked, cpc, handshake, cret, stolen, NotSession>>

\* waitForHandshake: the select; its default branch goes into scanner.Scan()
HsSelect ==
    /\ cpc = "select"
    /\ \/ ctxDone /\ ConnectFails("context canceled")
       \/ ctimer /\ ConnectFails("handshake timeout")
       \/ ~ctxDone /\ ~ctimer /\ cpc' = "scan" /\ UNCHANGED <<cret, connected, sock>>
    /\ UNCHANGED <<now, ctxDone, responses, scalls, wire, inbox, rl, panicked, ctimer,
                   handshake, stolen, NotSession>>

\* waitForHandshake: what it does with the line Scan returned
WaitTakes(line) ==
    /\ handshake' = IF ClientHandshakeLine(line) = "ok" THEN line.Result ELSE handshake
    /\ CASE ClientHandshakeLine(line) = "ok" ->
                cpc' = "done" /\ cret' = "ok" /\ UNCHANGED sock
         [] ClientHandshakeLine(line) = "parse" ->
                cpc' = "done" /\ cret' = "failed to parse handshake" /\ sock' = "closed"
         [] OTHER ->
                cpc' = "select" /\ UNCHANGED <<cret, sock>>

\* waitForHandshake: dmc.scanner.Scan() returns to it alone
HsScan ==
    /\ cpc = "scan"
    /\ IF inbox # <<>>
       THEN /\ WaitTakes(Head(inbox))
            /\ connected' = (connected /\ ClientHandshakeLine(Head(inbox)) # "parse")
            /\ inbox' = Tail(inbox)
       ELSE /\ sock = "peer_closed"
            /\ cpc' = "select"
            /\ UNCHANGED <<handshake, cret, sock, connected, inbox>>
    /\ UNCHANGED <<now, ctxDone, responses, scalls, wire, rl, panicked, ctimer, stolen,
                   NotSession>>

\* both goroutines are inside dmc.scanner.Scan() when a line arrives and both
\* come out with it
RaceScan ==
    /\ cpc = "scan"
    /\ rl.pc = "scan"
    /\ inbox # <<>>
    /\ WaitTakes(Head(inbox))
    /\ rl' = IF ctxDone THEN [Idle EXCEPT !.pc = "ended"]
             ELSE IF Deliverable(Head(inbox), responses)
                  THEN [pc |-> "send", msg |-> Head(inbox), ch |-> responses[Head(inbox).ID]]
             ELSE rl
    /\ connected' = (connected /\ ~ctxDone /\ ClientHandshakeLine(Head(inbox)) # "parse")
    /\ inbox' = Tail(inbox)
    /\ UNCHANGED <<now, ctxDone, responses, scalls, wire, panicked, ctimer, stolen,
                   NotSession>>

CNext ==
    \/ Connect
    \/ TimerFire
    \/ HsSelect
    \/ HsScan
    \/ RaceScan
    \/ RLScan
    \/ PeerSend
    \/ PeerClose
    \/ CancelContext

(***************************************************************************)
(* The inbound listener (DriverManagerServer): handleConnection runs once  *)
(* per accepted connection.                                                *)
(***************************************************************************)
Conns == {"k1", "k2"}

\* what the peer of an inbound connection may write
ServerLines ==
    { HostLine("garbage", "", "", Nil, FALSE, 0),
      HostLine("json", "handshake", "hello", "info", FALSE, 0),
      HostLine("json", "handshake", "handshake", "bad", FALSE, 0) }

\* a handshake wait that takes the first line, whatever it is
ServerHandshakeLine_AnyLine(line) == "ok"

\* waitForHandshake of the server on one line: "again", "ok" or "parse"
ServerHandshakeLine(line) ==
    IF line.text # "json" THEN "again"
    ELSE IF line.Type = "handshake"
         THEN IF line.Result = "bad" THEN "parse" ELSE "ok"
    ELSE "again"

\* handleConnection: client ID
ClientID(t) == "dm-" \o ToString(t)

\* a connection nobody accepted yet.  pc is handleConnection's position:
\* "none", "select", "scan", "handshaken", "serving", "returned"; overdue is a
\* ghost: the timer fired before the peer had sent a handshake
NoConn ==
    [pc |-> "none", ID |-> "", connected |-> FALSE, handshake |-> Nil, fired |-> FALSE,
     lines |-> <<>>, peer |-> "none", loop |-> FALSE, hsSent |-> FALSE,
     overdue |-> FALSE]

AInit ==
    /\ conns = [k \in Conns |-> NoConn]
    /\ clients = NoTable
    /\ regOrder = <<>>
    /\ stopped = FALSE
    /\ snow = 0

\* the server after two driver managers connected one after the other, sent
\* their handshakes and were registered
AInitRegistered ==
    /\ conns = [k \in Conns |->
                  [NoConn EXCEPT !.pc = "serving",
                                 !.ID = ClientID(IF k = "k1" THEN 1 ELSE 2),
                                 !.connected = TRUE, !.handshake = "info",
                                 !.peer = "open", !.loop = TRUE, !.hsSent = TRUE]]
    /\ clients = [id \in {ClientID(1), ClientID(2)} |->
                    IF id = ClientID(1) THEN "k1" ELSE "k2"]
    /\ regOrder = <<"k1", "k2">>
    /\ stopped = FALSE
    /\ snow = 2

NotServer == <<mvars, dvars, evars, svars, fvars, kvars, pvars>>

\* GetConnectedManagers
GetConnectedManagers ==
    {clients[id] : id \in {i \in DOMAIN clients : conns[clients[i]].connected}}

\* acceptConnections: Accept returns and handleConnection builds the client
\* and enters waitForHandshake
Accept(k) ==
    /\ ~stopped
    /\ conns[k].pc = "none"
    /\ \E t \in {snow, snow + 1} :
        /\ snow' = t
        /\ conns' = [conns EXCEPT ![k] =
               [NoConn EXCEPT !.pc = "select", !.ID = ClientID(t), !.connected = TRUE,
                              !.peer = "open"]]
    /\ UNCHANGED <<clients, regOrder, stopped, NotServer>>

\* the peer of a connection writes a line
SPeerSend(k) ==
    /\ conns[k].peer = "open"
    /\ Len(conns[k].lines) < MaxInbox
    /\ \E line \in ServerLines :
        conns' = [conns EXCEPT ![k].lines = Append(@, line),
                    ![k].hsSent = (@ \/ ServerHandshakeLine(line) = "ok")]
    /\ UNCHANGED <<clients, regOrder, stopped, snow, NotServer>>

\* the peer of a connection closes it
SPeerClose(k) ==
    /\ conns[k].peer = "open"
    /\ conns' = [conns EXCEPT ![k].peer = "closed"]
    /\ UNCHANGED <<clients, regOrder, stopped, snow, NotServer>>

\* waitForHandshake: 30 s have passed since time.NewTimer
STimerFire(k) ==
    /\ conns[k].pc \in {"select", "scan"}
    /\ ~conns[k].fired
    /\ conns' = [conns EXCEPT ![k].fired = TRUE, ![k].overdue = ~conns[k].hsSent]
    /\ UNCHANGED <<clients, regOrder, stopped, snow, NotServer>>

\* waitForHandshake: the select; its default branch goes into scanner.Scan()
SHsSelect(k) ==
    /\ conns[k].pc = "select"
    /\ conns' = [conns EXCEPT ![k].pc = IF conns[k].fired THEN "returned" ELSE "scan"]
    /\ UNCHANGED <<clients, regOrder, stopped, snow, NotServer>>

\* waitForHandshake: client.scanner.Scan() returns
SHsScan(k) ==
    /\ conns[k].pc = "scan"
    /\ IF conns[k].lines # <<>>
       THEN conns' = [conns EXCEPT
               ![k].lines = Tail(@),
               ![k].handshake = IF ServerHandshakeLine(Head(conns[k].lines)) = "ok"
                                THEN Head(conns[k].lines).Result ELSE @,
               ![k].pc = CASE ServerHandshakeLine(Head(conns[k].lines)) = "ok" -> "handshaken"
                           [] ServerHandshakeLine(Head(conns[k].lines)) = "parse" -> "returned"
                           [] OTHER -> "select"]
       ELSE /\ conns[k].peer = "closed" \/ ~conns[k].connected
            /\ conns' = [conns EXCEPT ![k].pc = "select"]
    /\ UNCHANGED <<clients, regOrder, stopped, snow, NotServer>>

\* handleConnection: dms.clients[client.ID] = client, go client.processMessages
SRegister(k) ==
    /\ conns[k].pc = "handshaken"
    /\ clients' = Register(clients, conns[k].ID, k)
    /\ regOrder' = Append(regOrder, k)
    /\ conns' = [conns EXCEPT ![k].pc = "serving", ![k].loop = TRUE]
    /\ UNCHANGED <<stopped, snow, NotServer>>

\* processMessages of a registered connection ends: the peer closed, the
\* connection was closed, or dms.ctx is done when a line arrives
SLoopEnds(k) ==
    /\ conns[k].loop
    /\ \/ conns[k].peer = "closed"
       \/ ~conns[k].connected
       \/ stopped /\ conns[k].lines # <<>>
    /\ conns' = [conns EXCEPT ![k].loop = FALSE, ![k].connected = FALSE]
    /\ UNCHANGED <<clients, regOrder, stopped, snow, NotServer>>

\* handleConnection: <-dms.ctx.Done() returns, and the deferred conn.Close()
SServed(k) ==
    /\ conns[k].pc = "serving"
    /\ stopped
    /\ conns' = [conns EXCEPT ![k].pc = "returned"]
    /\ UNCHANGED <<clients, regOrder, stopped, snow, NotServer>>

\* Stop: dms.cancel(), the listener closed, Close on every registered client
Stop ==
    /\ ~stopped
    /\ stopped' = TRUE
    /\ conns' = [k \in Conns |->
                    IF \E id \in DOMAIN clients : clients[id] = k
                    THEN [conns[k] EXCEPT !.connected = FALSE]
                    ELSE conns[k]]
    /\ UNCHANGED <<clients, regOrder, snow, NotServer>>

ANext ==
    \/ \E k \in Conns : Accept(k)
    \/ \E k \in Conns : SPeerSend(k)
    \/ \E k \in Conns : SPeerClose(k)
    \/ \E k \in Conns : STimerFire(k)
    \/ \E k \in Conns : SHsSelect(k)
    \/ \E k \in Conns : SHsScan(k)
    \/ \E k \in Conns : SRegister(k)
    \/ \E k \in Conns : SLoopEnds(k)
    \/ \E k \in Conns : SServed(k)
    \/ Stop

(***************************************************************************)
(* The calls of DriverManagerServer that go from one registered connection *)
(* to the next: GetDriverInfo, CreateDriverInstance and                    *)
(* ExecuteDriverOperation.                                                 *)
(***************************************************************************)
\* the driver names a driver manager may host; the calls ask for "X"
RemoteDrivers == {"X", "Y"}

FanoutMethods == {"get_driver_info", "create_instance", "execute_operation"}

NoFanout == [method |-> "", driver |-> ""]

NoFanoutRet == [ok |-> FALSE, from |-> "", err |-> ""]

NotFanout == <<mvars, dvars, evars, svars, avars, kvars, pvars>>

\* make(map[string]interface{})
NoDrivers == [name \in {} |-> ""]

\* no call was made yet
FInit ==
    /\ fpc = "idle"
    /\ fcall = NoFanout
    /\ fmanagers = <<>>
    /\ ftried = <<>>
    /\ fret = NoFanoutRet
    /\ fall = NoDrivers
    /\ fhosts = [k \in Conns |-> {}]
    /\ fcreated = [k \in Conns |-> FALSE]

\* no call was made yet; each connected driver manager hosts some drivers
FInitHosts ==
    /\ fpc = "idle"
    /\ fcall = NoFanout
    /\ fmanagers = <<>>
    /\ ftried = <<>>
    /\ fret = NoFanoutRet
    /\ fall = NoDrivers
    /\ fhosts \in [Conns -> SUBSET RemoteDrivers]
    /\ fcreated = [k \in Conns |-> FALSE]

\* GetConnectedManagers ranges over the map dms.clients: the slices it may
\* return hold the connected clients once each, in any order
MapRange(S) ==
    {o \in [1..Cardinality(S) -> S] :
        \A i, j \in 1..Cardinality(S) : o[i] = o[j] => i = j}

\* what the driver manager behind connection k answers to the request:
\* handleListDrivers always answers with its catalog,
\* handleGetDriverInfo answers 404 for a driver its registry does not hold,
\* handleCreateInstance fails for such a driver, when Init fails or when it
\* holds the instance already,
\* handleExecuteOperation fails when it has no such instance
PeerAnswers(k, call) ==
    CASE call.method = "list_drivers" -> {""}
      [] call.method = "get_driver_info" ->
            IF call.driver \in fhosts[k] THEN {""} ELSE {"driver manager error"}
      [] call.method = "create_instance" ->
            IF call.driver \in fhosts[k] /\ ~fcreated[k]
            THEN {"", "driver manager error"}
            ELSE {"driver manager error"}
      [] OTHER -> {"", "driver manager error"}

\* DriverManagerConnection.sendRequest on connection k: the results it may
\* return, with whether the request line was written
sendRequest(k, call) ==
    IF ~conns[k].connected
    THEN {[mgr |-> k, written |-> FALSE, err |-> "not connected"]}
    ELSE {[mgr |-> k, written |-> TRUE, err |-> e] :
              e \in {"request timeout", "context canceled"}}
         \cup (IF conns[k].peer = "open" /\ conns[k].loop
               THEN {[mgr |-> k, written |-> TRUE, err |-> e] :
                        e \in PeerAnswers(k, call)}
               ELSE {[mgr |-> k, written |-> FALSE, err |-> "failed to send request"]})

\* whether the driver manager behind res.mgr creates the instance of a
\* create_instance request: it does when it answers success; when the
\* request was written and sendRequest returned on its timer or on ctx, the
\* peer may have the request and create the instance, then or later
PeerCreates(call, res) ==
    IF call.method # "create_instance" THEN {FALSE}
    ELSE IF res.err = "" THEN {TRUE}
    ELSE IF /\ res.written
            /\ res.err \in {"request timeout", "context canceled"}
            /\ conns[res.mgr].peer = "open"
            /\ call.driver \in fhosts[res.mgr]
            /\ ~fcreated[res.mgr]
         THEN {FALSE, TRUE}
    ELSE {FALSE}

\* a loop that returns on the first response, error or not
FanoutReturns_AnyAnswer(res) == res.written

\* the loops return on err == nil (GetDriverInfo: and the result is a map,
\* which the result of handleGetDriverInfo is)
FanoutReturns(res) == res.err = ""

\* the error after the loop
FanoutError(method) ==
    CASE method = "get_driver_info" -> "not found in any connected manager"
      [] method = "create_instance" -> "failed to create driver instance on any manager"
      [] OTHER -> "failed to execute operation on any manager"

\* managers := dms.GetConnectedManagers(); CreateDriverInstance returns at
\* once when the slice is empty
FanoutStart ==
    /\ fpc = "idle"
    /\ \E method \in FanoutMethods, managers \in MapRange(GetConnectedManagers) :
        /\ fcall' = [method |-> method, driver |-> "X"]
        /\ fmanagers' = managers
        /\ IF method = "create_instance" /\ Len(managers) = 0
           THEN /\ fpc' = "returned"
                /\ fret' = [ok |-> FALSE, from |-> "",
                            err |-> "no connected driver managers"]
           ELSE /\ fpc' = "loop"
                /\ fret' = NoFanoutRet
    /\ ftried' = <<>>
    /\ UNCHANGED <<fall, fhosts, fcreated, NotFanout>>

\* one iteration of for _, manager := range managers
FanoutTry ==
    /\ fpc = "loop"
    /\ Len(ftried) < Len(fmanagers)
    /\ \E res \in sendRequest(fmanagers[Len(ftried) + 1], fcall) :
        /\ ftried' = Append(ftried, res)
        /\ IF FanoutReturns(res)
           THEN /\ fpc' = "returned"
                /\ fret' = [ok |-> TRUE, from |-> res.mgr, err |-> ""]
           ELSE UNCHANGED <<fpc, fret>>
        /\ \E created \in PeerCreates(fcall, res) :
               fcreated' = [fcreated EXCEPT ![res.mgr] = @ \/ created]
    /\ UNCHANGED <<fcall, fmanagers, fall, fhosts, NotFanout>>

\* the loop ends without a return
FanoutEnd ==
    /\ fpc = "loop"
    /\ Len(ftried) = Len(fmanagers)
    /\ fpc' = "returned"
    /\ fret' = [ok |-> FALSE, from |-> "", err |-> FanoutError(fcall.method)]
    /\ UNCHANGED <<fcall, fmanagers, ftried, fall, fhosts, fcreated, NotFanout>>

\* the caller has the result; the next call may start
FanoutDone ==
    /\ fpc = "returned"
    /\ fpc' = "idle"
    /\ fcall' = NoFanout
    /\ fmanagers' = <<>>
    /\ ftried' = <<>>
    /\ fret' = NoFanoutRet
    /\ fall' = NoDrivers
    /\ UNCHANGED <<fhosts, fcreated, NotFanout>>

\* a merge that keeps the entry a name already has
MergeDrivers_FirstWins(all, k) ==
    [name \in DOMAIN all \cup fhosts[k] |->
        IF name \in DOMAIN all THEN all[name] ELSE k]

\* for name, info := range driversMap { allDrivers[name] = info }, with the
\* catalog handleListDrivers of connection k's driver manager answers
MergeDrivers(all, k) ==
    [name \in DOMAIN all \cup fhosts[k] |->
        IF name \in fhosts[k] THEN k ELSE all[name]]

\* GetAllDrivers: managers := dms.GetConnectedManagers()
GetAllDriversStart ==
    /\ fpc = "idle"
    /\ \E managers \in MapRange(GetConnectedManagers) :
        fmanagers' = managers
    /\ fcall' = [method |-> "list_drivers", driver |-> ""]
    /\ fpc' = "all"
    /\ ftried' = <<>>
    /\ fall' = NoDrivers
    /\ UNCHANGED <<fret, fhosts, fcreated, NotFanout>>

\* GetAllDrivers: one iteration of for _, manager := range managers
GetAllDriversVisit ==
    /\ fpc = "all"
    /\ Len(ftried) < Len(fmanagers)
    /\ \E res \in sendRequest(fmanagers[Len(ftried) + 1], fcall) :
        /\ ftried' = Append(ftried, res)
        /\ fall' = IF res.err = "" THEN MergeDrivers(fall, res.mgr) ELSE fall
    /\ UNCHANGED <<fpc, fcall, fmanagers, fret, fhosts, fcreated, NotFanout>>

\* GetAllDrivers: return allDrivers, nil
GetAllDriversReturn ==
    /\ fpc = "all"
    /\ Len(ftried) = Len(fmanagers)
    /\ fpc' = "returned"
    /\ fret' = [ok |-> TRUE, from |-> "", err |-> ""]
    /\ UNCHANGED <<fcall, fmanagers, ftried, fall, fhosts, fcreated, NotFanout>>

FNext ==
    \/ FanoutStart
    \/ FanoutTry
    \/ FanoutEnd
    \/ GetAllDriversStart
    \/ GetAllDriversVisit
    \/ GetAllDriversReturn
    \/ FanoutDone
    \/ \E k \in Conns : SPeerClose(k)
    \/ \E k \in Conns : SLoopEnds(k)

(***************************************************************************)
(* The wire form of a Message: json.Marshal under the struct tags of       *)
(* Message (id, type; method, params, result, error with omitempty) and    *)
(* json.Unmarshal into a zero Message.                                     *)
(***************************************************************************)
\* Params is a map: nil, empty (make(...) with no key) or with keys.
\* Result is an interface{}: nil, a string or an empty map.
\* Error is a pointer: nil, &ErrorInfo{} or an ErrorInfo with code and message.
ParamsValues == {"nil", "{}", "{k:v}"}
ResultValues == {"nil", "\"v\"", "{}"}
ErrorValues == {"nil", "{0,\"\"}", "{500,\"e\"}"}

WireMessage(id, type, method, params, result, error) ==
    [ID |-> id, Type |-> type, Method |-> method, Params |-> params,
     Result |-> result, Error |-> error]

\* the Message values sent through the codec
WireMessages ==
    {WireMessage(id, type, method, params, result, error) :
        id \in MsgIDs, type \in {"request", "response"},
        method \in {"", "list_drivers"}, params \in ParamsValues,
        result \in ResultValues, error \in ErrorValues}

\* omitempty: what encoding/json leaves out; a string when "", a map when
\* its length is 0, an interface or a pointer when nil
OmitString(v) == v = ""
OmitMap(v) == v \in {"nil", "{}"}
OmitInterface(v) == v = "nil"
OmitPointer(v) == v = "nil"

\* json.Marshal(msg): the keys of the object written and their values
jsonMarshal(msg) ==
    [keys |-> {"id", "type"}
              \cup (IF OmitString(msg.Method) THEN {} ELSE {"method"})
              \cup (IF OmitMap(msg.Params) THEN {} ELSE {"params"})
              \cup (IF OmitInterface(msg.Result) THEN {} ELSE {"result"})
              \cup (IF OmitPointer(msg.Error) THEN {} ELSE {"error"}),
     id |-> msg.ID, type |-> msg.Type,
     method |-> IF OmitString(msg.Method) THEN "" ELSE msg.Method,
     params |-> IF OmitMap(msg.Params) THEN "" ELSE msg.Params,
     result |-> IF OmitInterface(msg.Result) THEN "" ELSE msg.Result,
     error |-> IF OmitPointer(msg.Error) THEN "" ELSE msg.Error]

\* json.Unmarshal(line, &msg) with msg the zero Message: a key that is absent
\* leaves the zero value of its field
jsonUnmarshal(line) ==
    WireMessage(line.id, line.type,
                IF "method" \in line.keys THEN line.method ELSE "",
                IF "params" \in line.keys THEN line.params ELSE "nil",
                IF "result" \in line.keys THEN line.result ELSE "nil",
                IF "error" \in line.keys THEN line.error ELSE "nil")

NoWireMessage == WireMessage("", "", "", "nil", "nil", "nil")

\* no Message is on its way
KInit == codec = [pc |-> "none", msg |-> NoWireMessage,
                  line |-> jsonMarshal(NoWireMessage), back |-> NoWireMessage]

\* a Message about to be sent
KInitMessage ==
    \E msg \in WireMessages :
        codec = [pc |-> "message", msg |-> msg, line |-> jsonMarshal(NoWireMessage),
                 back |-> NoWireMessage]

NotCodec == <<mvars, dvars, evars, svars, avars, fvars, pvars>>

\* sendMessage / sendRequest: data, err := json.Marshal(msg), written as a line
WriteLine ==
    /\ codec.pc = "message"
    /\ codec' = [codec EXCEPT !.pc = "line", !.line = jsonMarshal(codec.msg)]
    /\ UNCHANGED NotCodec

\* processMessage / processMessages: json.Unmarshal([]byte(line), &msg)
ReadLine ==
    /\ codec.pc = "line"
    /\ codec' = [codec EXCEPT !.pc = "parsed", !.back = jsonUnmarshal(codec.line)]
    /\ UNCHANGED NotCodec

KNext ==
    \/ WriteLine
    \/ ReadLine

\* the pool before AddDriverManager
NoPool == [clients |-> <<>>, visits |-> <<>>, locks |-> {}]

PInit == pool = NoPool

vars == <<mvars, dvars, evars, svars, avars, fvars, kvars, pvars>>

\* the driver-manager process serving its first connection and a session
\* whose Connect returned nil
Init == MInit /\ EInit /\ SInitConnected /\ AInit /\ FInit /\ KInit /\ PInit

\* the driver-manager process at its start
InitProcess == MInitDial /\ EInit /\ SInitConnected /\ AInit /\ FInit /\ KInit /\ PInit

SpecManager == InitProcess /\ [][MNext]_vars

\* the driver-manager process when time passes and its goroutine is scheduled:
\* time.After(*reconnectInterval) fires and the loop of runConnectionManager
\* goes on
SpecReconnect ==
    InitProcess /\ [][MNext]_vars /\ WF_vars(ReconnectWait) /\ WF_vars(DialOpenList)

SpecConcurrent == Init /\ [][ENext]_vars

SpecSession == Init /\ [][SNext]_vars

SpecServer == Init /\ [][ANext]_vars

\* the driver-manager process serving and a session not dialed yet
InitDial == MInit /\ EInit /\ SInitDial /\ AInit /\ FInit /\ KInit /\ PInit

SpecClient == InitDial /\ [][CNext]_vars

(***************************************************************************)
(* The pool (DriverManagerPool): dmp.clients is a []DriverManagerClient.   *)
(* AddDriverManager appends *client, a copy of the struct Connect worked   *)
(* on: the copy has its own connected field and its own mutex, and shares  *)
(* conn, scanner and the map responses with the original, which is the     *)
(* value the processMessages goroutine holds.  The loops of the pool range *)
(* over dmp.clients by value and call the methods on the loop variable.    *)
(***************************************************************************)
\* calls the loops of the pool make
MaxPoolCalls == 1

\* the mutex of the client NewDriverManagerClient returned, which
\* processMessages locks, and the mutex inside a copy of that client
SessionMutex == "client.mutex"
CopyMutex == "copy.mutex"

NotPool == <<mvars, dvars, evars, avars, fvars, kvars>>

\* AddDriverManager: client.Connect(ctx) returned nil;
\* dmp.clients = append(dmp.clients, *client)
AddDriverManager ==
    /\ cpc = "done"
    /\ cret = "ok"
    /\ pool.clients = <<>>
    /\ pool' = [pool EXCEPT !.clients = Append(@, [connected |-> connected,
                                                    mutex |-> CopyMutex])]
    /\ UNCHANGED <<svars, NotPool>>

\* GetConnectedManagers of the pool: the elements whose IsConnected() is true
PoolGetConnectedManagers ==
    {i \in DOMAIN pool.clients : pool.clients[i].connected}

\* GetAllDrivers / GetDriverInfo of the pool, one iteration of
\* for _, client := range dmp.clients: continue when !client.IsConnected(),
\* else client.ListDrivers or client.GetDriverInfo, which is sendRequest on
\* the loop variable
PoolVisit(i) ==
    /\ Len(pool.visits) < MaxPoolCalls
    /\ IF ~pool.clients[i].connected
       THEN /\ pool' = [pool EXCEPT !.visits = Append(@, "skipped")]
            /\ UNCHANGED svars
       ELSE /\ sendRequestOn(pool.clients[i].connected)
            /\ pool' = [pool EXCEPT !.visits = Append(@, "called"),
                                    !.locks = @ \cup {pool.clients[i].mutex}]
    /\ UNCHANGED NotPool

PNext ==
    \/ Connect
    \/ TimerFire
    \/ HsSelect
    \/ HsScan
    \/ RaceScan
    \/ RLScan
    \/ RLSend
    \/ PeerSend
    \/ PeerClose
    \/ PeerRespond
    \/ CancelContext
    \/ AddDriverManager
    \/ \E i \in DOMAIN pool.clients : PoolVisit(i)
    \/ \E k \in DOMAIN scalls : SendRequestWrite(k)
    \/ \E k \in DOMAIN scalls : SendRequestTimeout(k)
    \/ \E k \in DOMAIN scalls : SendRequestCancelled(k)
    \/ \E k \in DOMAIN scalls : SendRequestReceive(k)
    \/ \E k \in DOMAIN scalls : SendRequestDone(k)

SpecPool == InitDial /\ [][PNext]_vars

\* the server with two registered driver managers
InitFanout == MInit /\ EInit /\ SInitConnected /\ AInitRegistered /\ FInitHosts /\ KInit /\ PInit

SpecFanout == InitFanout /\ [][FNext]_vars

\* a Message value before it is sent
InitCodec ==
    MInit /\ EInit /\ SInitConnected /\ AInit /\ FInit /\ KInitMessage /\ PInit

SpecCodec == InitCodec /\ [][KNext]_vars

(***************************************************************************)
(* Claims about the driver-manager process (SpecManager)                   *)
(***************************************************************************)
\* the handler has written its response to a request with this method
Handled(method) ==
    hpc = "sent" /\ hline.json /\ hline.Type = "request" /\ hline.Method = method

FailsWith(message) ==
    /\ hout.type = "response"
    /\ "error" \in hout.keys
    /\ "result" \notin hout.keys
    /\ hout.error.message = message

Fails == hout.type = "response" /\ "error" \in hout.keys /\ "result" \notin hout.keys

Succeeds(result) ==
    /\ hout.type = "response"
    /\ "error" \notin hout.keys
    /\ "result" \in hout.keys
    /\ hout.result = result

\* C6 as stated: every create_instance that names an existing instance ID fails
\* with 'already exists' and leaves the table and the drivers alone; the
\* first create_instance for an ID with a known driver whose Init succeeds
\* returns 'success'.
C6_DuplicateAlwaysAlreadyExists ==
    Handled("create_instance") /\ hline.iid \in DOMAIN hpre
        => FailsWith("already exists") /\ instances = hpre /\ hcalls = {}

\* C6 amended: a create_instance that carries a driver name and names an
\* existing instance ID fails with 'already exists'; every create_instance that
\* names an existing instance ID fails and leaves the instance table as it was
\* (same driver object, configuration and enabled flag) with no driver call;
\* the first create_instance for an ID with a known driver whose Init succeeds
\* answers 'success' and inserts the instance, enabled.
C6_DuplicateCreateRejected ==
    /\ Handled("create_instance") /\ hline.iid \in DOMAIN hpre
        => /\ Fails
           /\ hline.driver # Missing => FailsWith("already exists")
           /\ instances = hpre
           /\ hcalls = {}
    /\ Handled("create_instance") /\ hline.iid \in InstanceIDs \ DOMAIN hpre
         /\ GetDriver(hline.driver) /\ henv.initOk
        => /\ Succeeds("success")
           /\ hline.iid \in DOMAIN instances
           /\ instances[hline.iid].enabled
           /\ instances[hline.iid].name = hline.driver

\* a duplicate create_instance whose driver and configuration differ from those
\* of the existing, disabled instance has been answered
C6_Witness ==
    /\ Handled("create_instance")
    /\ hline.iid \in DOMAIN hpre
    /\ GetDriver(hline.driver)
    /\ hpre[hline.iid].name # hline.driver
    /\ hpre[hline.iid].config # hline.config
    /\ ~hpre[hline.iid].enabled
    /\ FailsWith("already exists")

\* C7: remove_instance for an instance ID that is not in the instance table
\* fails and changes nothing: same instances, flags and drivers, no driver call.
C7_RemoveUnknownNoEffect ==
    Handled("remove_instance") /\ hline.iid \notin DOMAIN hpre
        => Fails /\ instances = hpre /\ hcalls = {}

\* a remove_instance for an absent ID has been answered while another instance exists
C7_Witness ==
    /\ Handled("remove_instance")
    /\ hline.iid \in InstanceIDs \ DOMAIN hpre
    /\ DOMAIN hpre # {}
    /\ FailsWith("not found")

\* C9: every response the protocol handler writes carries exactly one of result
\* and error, and a method field is present exactly on requests.
C9_ExactlyOneOfResultError ==
    hpc = "sent" =>
        /\ hout.type = "response" =>
              ("result" \in hout.keys) # ("error" \in hout.keys)
        /\ ("method" \in hout.keys) <=> (hout.type = "request")

\* C10 as stated: execute_operation with an operation name other than list,
\* link, get, other fails with 'unsupported operation', and list, link or get
\* without a string path fails; in both cases no driver method is called.
C10_UnknownOperationAlwaysUnsupported ==
    /\ Handled("execute_operation") /\ hline.iid # Missing
         /\ hline.operation \notin {"list", "link", "get", "other", Missing}
        => FailsWith("unsupported operation") /\ hcalls = {}
    /\ Handled("execute_operation") /\ hline.operation \in {"list", "link", "get"}
         /\ hline.path = Missing
        => Fails /\ hcalls = {}

\* C10 amended: on an instance that exists and is enabled, execute_operation
\* with an operation name other than list, link, get, other fails with
\* 'unsupported operation'; on any instance ID such a request fails, and so
\* does list, link or get without a string path; in all these cases no driver
\* method is called.
C10_UnknownOperationRejected ==
    /\ Handled("execute_operation") /\ hline.iid # Missing
         /\ hline.operation \notin {"list", "link", "get", "other", Missing}
        => /\ Fails
           /\ hcalls = {}
           /\ (hline.iid \in DOMAIN hpre /\ hpre[hline.iid].enabled)
                 => FailsWith("unsupported operation")
    /\ Handled("execute_operation") /\ hline.operation \in {"list", "link", "get"}
         /\ hline.path = Missing
        => Fails /\ hcalls = {}

\* an execute_operation with an unknown operation name on an existing, enabled
\* instance has been answered
C10_Witness ==
    /\ Handled("execute_operation")
    /\ hline.operation = "bogus"
    /\ hline.iid \in DOMAIN hpre
    /\ hpre[hline.iid].enabled
    /\ FailsWith("unsupported operation")

\* C12: for every ping message with id X that the protocol handler processes,
\* it writes exactly one message, with id X, type response, result "pong" and
\* no error, and the instance table is left unchanged.
C12_PingAnsweredPong ==
    hpc = "sent" /\ hline.json /\ hline.Type = "ping"
        => /\ hout.keys = {"id", "type", "result"}
           /\ hout.id = hline.ID
           /\ hout.type = "response"
           /\ hout.result = "pong"
           /\ hout.error = NoError
           /\ instances = hpre
           /\ hcalls = {}

\* a ping with id m2 has been answered while an instance exists
C12_Witness ==
    /\ hpc = "sent" /\ hline.json /\ hline.Type = "ping" /\ hline.ID = "m2"
    /\ hout.id = "m2" /\ hout.result = "pong"
    /\ DOMAIN instances # {}

\* C14: on every connection the process dials, at most one handshake message
\* is written, it is the first message written, and exactly one has been
\* written whenever the handler serves the connection; the responses of the
\* handler are never handshakes, and a connection dialed after an earlier one
\* starts again with its handshake.
C14_OneHandshakeFirst ==
    /\ dconn.hs <= 1
    /\ ~dconn.early
    /\ dconn.served => dconn.hs = 1
    /\ dpc = "handle" => dconn.hs = 1 /\ dconn.hello.type = "handshake"
    /\ dpc \in {"dial", "connected"} => hpc = "scan"
    /\ hpc = "sent" => hout.type = "response"

\* the handshake has been written, and nothing else yet, on a connection
\* dialed while an instance created over an earlier connection exists
C14_Witness ==
    /\ dpc = "handle"
    /\ dconn.hs = 1
    /\ ~dconn.served
    /\ DOMAIN instances # {}

\* C15: in every handshake message sent, driver_count equals the number of
\* entries of the drivers mapping, and the names in that mapping are exactly
\* the driver names of the local registry; with an empty registry the
\* handshake reports driver_count = 0 and an empty drivers mapping.
C15_HandshakeCountsRegistry ==
    dconn.hs > 0 =>
        /\ dconn.hello.id = "handshake"
        /\ dconn.hello.type = "handshake"
        /\ "result" \in dconn.hello.keys
        /\ dconn.hello.result.driver_count = Cardinality(DOMAIN dconn.hello.result.drivers)
        /\ DOMAIN dconn.hello.result.drivers = registry
        /\ registry = {} => /\ dconn.hello.result.driver_count = 0
                            /\ DOMAIN dconn.hello.result.drivers = {}

\* a handshake has been written by a process whose registry is empty
C15_Witness ==
    /\ dconn.hs = 1
    /\ registry = {}
    /\ dconn.hello.result.driver_count = 0

(***************************************************************************)
(* Claims about DriverManager under concurrent callers (SpecConcurrent)    *)
(***************************************************************************)
\* C8 as stated: after DisableDriverInstance(id) has returned, every
\* ExecuteDriverOperation on id that starts before the next
\* EnableDriverInstance(id) fails with 'disabled' and calls no driver method.
C8_DisabledUntilEnableStarts ==
    epc = "returned" /\ eghost.toggle = "disable"
        => eret.err = "disabled" /\ eret.calls = {}

\* C8 amended: after DisableDriverInstance(id) has returned, every
\* ExecuteDriverOperation on id that returns before the next
\* EnableDriverInstance(id) or RemoveDriverInstance(id) takes the lock fails
\* with 'disabled' and calls no driver method; under any interleaving of
\* enable and disable calls the enabled flag equals the value written by the
\* call that took the lock last.
C8_DisabledUntilReenabled ==
    /\ epc = "returned" /\ eghost.present /\ eghost.toggle = "disable" /\ ~eghost.touched
        => eret.err = "disabled" /\ eret.calls = {}
    /\ \A iid \in DOMAIN instances :
        /\ lastToggle[iid] = "disable" => ~instances[iid].enabled
        /\ lastToggle[iid] = "enable" => instances[iid].enabled

\* an Execute on an instance disabled after an earlier enable has returned,
\* the instance untouched meanwhile
C8_Witness ==
    /\ epc = "returned"
    /\ eghost.present /\ eghost.toggle = "disable" /\ ~eghost.touched
    /\ ereq.operation = "list"
    /\ eret.err = "disabled"

(***************************************************************************)
(* Claims about a host-side stream session (SpecSession)                   *)
(***************************************************************************)
Pending(k) == scalls[k].pc \in {"registered", "waiting"}

\* C1: no two sendRequest calls pending at the same time on a session hold
\* the same correlation ID, calls with the same method name included.
C1_PendingIDsDistinct ==
    \A j \in DOMAIN scalls, k \in DOMAIN scalls :
        j # k /\ Pending(j) /\ Pending(k) => scalls[j].id # scalls[k].id

\* C2: a sendRequest call returns only the result or error of the response to
\* the request it wrote itself, never the response to another call's request.
C2_OwnResponseOnly ==
    \A k \in DOMAIN scalls :
        scalls[k].pc = "returned" /\ scalls[k].ret \in {"result", "driver manager error"}
            => scalls[k].re = k

\* C3: however a sendRequest call ends, the entry it registered is out of the
\* pending table and its channel closed, so the table is empty whenever no
\* call is in progress; a call that was written, was not cancelled and got no
\* response before its deadline returns 'request timeout'.
C3_EntryRemovedOnEveryExit ==
    /\ (\A k \in DOMAIN scalls : ~Pending(k)) => DOMAIN responses = {}
    /\ \A k \in DOMAIN scalls :
        /\ scalls[k].pc \in {"returned", "gone"}
            => \A id \in DOMAIN responses : responses[id] # k
        /\ scalls[k].pc = "returned" /\ scalls[k].ret # "not connected"
            => scalls[k].closed
        /\ scalls[k].pc = "returned" /\ ~scalls[k].arrived
             /\ scalls[k].ret \notin {"not connected", "failed to marshal request",
                                      "failed to send request", "context canceled"}
            => scalls[k].ret = "request timeout"

\* a call ended with the request timeout, nothing having arrived for it, after
\* another call ended in another way; the table is empty
C3_Witness ==
    /\ \E k \in DOMAIN scalls :
        scalls[k].pc = "returned" /\ scalls[k].ret = "request timeout" /\ ~scalls[k].arrived
    /\ \E k \in DOMAIN scalls :
        scalls[k].pc = "returned" /\ scalls[k].ret = "failed to send request"
    /\ \A k \in DOMAIN scalls : ~Pending(k)
    /\ DOMAIN responses = {}

\* C13: a ping message received by a host-side read loop is answered: when
\* processMessages takes a ping line off the connection, the host writes a
\* line carrying the same id on that connection.
C13_HostAnswersPing ==
    [][(/\ rl.pc = "scan" /\ ~ctxDone
        /\ inbox # <<>> /\ Head(inbox).text = "json" /\ Head(inbox).Type = "ping"
        /\ rl'.pc = "scan" /\ inbox' = Tail(inbox))
          => \E line \in wire' \ wire : line.id = Head(inbox).ID]_vars

\* the errors of sendRequest that tell the caller the session is gone
DisconnectionErrors == {"not connected", "failed to send request"}

\* C19: when the server is stopped while sendRequest calls are pending on a
\* session, every one of those calls fails with a disconnection error: a call
\* that is pending on a session Stop has closed returns one of them.
C19_PendingFailDisconnected ==
    [][\A k \in DOMAIN scalls :
          (/\ ctxDone /\ sock = "closed" /\ ~connected
           /\ Pending(k)
           /\ scalls'[k].pc = "returned")
            => scalls'[k].ret \in DisconnectionErrors]_vars

(***************************************************************************)
(* Claims about the inbound listener (SpecServer)                          *)
(***************************************************************************)
\* C4: an inbound connection that has not delivered a handshake within the
\* handshake timeout is never added to the server's registry nor returned by
\* GetConnectedManagers, a peer that sends its handshake only after the
\* timeout included.
C4_OverdueNeverRegistered ==
    /\ \A id \in DOMAIN clients : ~conns[clients[id]].overdue
    /\ \A k \in GetConnectedManagers : ~conns[k].overdue

\* the connections that are entries of dms.clients
Registered == {clients[id] : id \in DOMAIN clients}

\* C16: a session is reachable through the server registry
\* (GetConnectedManagers, over which the fan-out operations write their
\* requests) only after its handshake wait has returned successfully: every
\* entry of the registry has its handshake captured, and a connection whose
\* handshake is still awaited or has failed is no entry and has captured
\* nothing; the lines read before the handshake went to the handshake wait,
\* the read loop of the session not yet started.
C16_ReachableAfterHandshake ==
    /\ \A k \in Registered :
          conns[k].handshake # Nil /\ conns[k].pc \in {"serving", "returned"}
    /\ GetConnectedManagers \subseteq Registered
    /\ \A k \in Conns :
          conns[k].pc \in {"none", "select", "scan"}
            => conns[k].handshake = Nil /\ ~conns[k].loop /\ k \notin Registered
    /\ \A k \in Conns :
          conns[k].pc = "returned" /\ conns[k].handshake = Nil => k \notin Registered

\* a session is registered and connected while the peer of another accepted
\* connection has sent a line but no handshake was captured from it yet
C16_Witness ==
    \E k \in Conns, j \in Conns :
        /\ k \in GetConnectedManagers
        /\ conns[k].handshake = "info"
        /\ conns[j].pc = "scan"
        /\ conns[j].lines # <<>>
        /\ j \notin GetConnectedManagers

\* C18: an entry is added to the registry when a session completes its
\* handshake and removed when the session disconnects: a session whose peer
\* has disconnected, whose read loop has ended and whose handleConnection
\* has returned is no entry of dms.clients any more.
C18_DisconnectedRemoved ==
    \A k \in Registered :
        ~(conns[k].peer = "closed" /\ ~conns[k].loop /\ conns[k].pc = "returned")

(***************************************************************************)
(* Claims about the outbound Connect (SpecClient)                          *)
(***************************************************************************)
\* C5: the handshake line of the peer is always received by the handshake
\* wait, under every interleaving of the read loop and the handshake wait, so
\* a Connect that returns after a valid handshake line was read returns success.
C5_HandshakeReachesWait ==
    /\ ~stolen
    /\ cpc = "done" /\ cret = "ok" => handshake # Nil

\* C17: once the outbound session has captured its HandshakeInfo the value
\* GetHandshakeInfo returns never changes, whatever the read loop reads
\* afterwards, further handshake messages included.
C17_HandshakeImmutable ==
    [][handshake # Nil => handshake' = handshake]_vars

\* Connect has returned with the handshake captured and the peer has sent a
\* further handshake message with another payload
C17_Witness ==
    /\ cpc = "done" /\ cret = "ok"
    /\ handshake = "info"
    /\ rl.pc = "scan"
    /\ inbox # <<>>
    /\ Head(inbox).Type = "handshake"
    /\ Head(inbox).Result = "info2"

\* C11: GetDriverInfo(name) on the server registry goes through the connected
\* sessions it collected: a session whose sendRequest returns an error is
\* skipped, the call succeeds as soon as one session answers without error
\* (a session answers so exactly when it hosts the name) and returns that
\* session's info, and it fails, with 'not found in any connected manager',
\* only when every one of the connected sessions failed.
C11_FirstAnsweringSession ==
    fpc = "returned" /\ fcall.method = "get_driver_info" =>
        /\ \A i \in 1..Len(ftried) : ftried[i].mgr = fmanagers[i]
        /\ \A i \in 1..Len(ftried) : i < Len(ftried) => ftried[i].err # ""
        /\ (\E i \in 1..Len(ftried) : ftried[i].err = "") => fret.ok
        /\ \A i \in 1..Len(ftried) :
              (/\ ftried[i].written
               /\ ftried[i].err \notin {"request timeout", "context canceled"}
               /\ fcall.driver \in fhosts[ftried[i].mgr]) => fret.ok
        /\ fret.ok =>
              /\ ftried # <<>>
              /\ ftried[Len(ftried)].err = ""
              /\ fret.from = ftried[Len(ftried)].mgr
              /\ fcall.driver \in fhosts[fret.from]
        /\ ~fret.ok =>
              /\ fret.err = "not found in any connected manager"
              /\ Len(ftried) = Len(fmanagers)
              /\ \A i \in 1..Len(ftried) : ftried[i].err # ""

\* two sessions, only the second one tried hosts the name: a miss, then a hit
C11_Witness ==
    /\ fpc = "returned"
    /\ fcall.method = "get_driver_info"
    /\ Len(ftried) = 2
    /\ ftried[1].err = "driver manager error"
    /\ fcall.driver \notin fhosts[ftried[1].mgr]
    /\ fret.ok
    /\ fret.from = ftried[2].mgr

RegisteredBefore(a, b) ==
    \E i, j \in DOMAIN regOrder : i < j /\ regOrder[i] = a /\ regOrder[j] = b

\* C20: CreateDriverInstance and ExecuteDriverOperation on the server registry
\* send the request to the connected sessions in the order in which they were
\* registered, return on the first session that answers without error, and
\* send nothing to a session after that one.
C20_TriedInRegistrationOrder ==
    fpc \in {"loop", "returned"}
    /\ fcall.method \in {"create_instance", "execute_operation"} =>
        /\ \A i, j \in 1..Len(ftried) :
              i < j => RegisteredBefore(ftried[i].mgr, ftried[j].mgr)
        /\ \A i \in 1..Len(ftried) : i < Len(ftried) => ftried[i].err # ""
        /\ fret.ok => /\ ftried # <<>>
                      /\ ftried[Len(ftried)].err = ""
                      /\ fret.from = ftried[Len(ftried)].mgr

\* C21: when CreateDriverInstance or ExecuteDriverOperation on the server
\* registry fails, the error tells whether no session was connected or
\* sessions were connected and every one of them failed: the error is 'no
\* connected driver managers' exactly when the call found no connected session.
C21_NoSessionErrorDistinct ==
    /\ fpc = "returned"
    /\ fcall.method \in {"create_instance", "execute_operation"}
    /\ ~fret.ok
    => (fret.err = "no connected driver managers" <=> fmanagers = <<>>)

\* the sessions of a GetAllDrivers call that answered list_drivers, by position
Answered == {i \in 1..Len(ftried) : ftried[i].err = ""}

\* C22: GetAllDrivers never fails; its result holds exactly the driver names
\* of the catalogs of the connected sessions that answered list_drivers (a
\* session that fails is skipped), and for each name the entry of the last
\* session visited among those that announce it.
C22_UnionLastWriterWins ==
    fpc = "returned" /\ fcall.method = "list_drivers" =>
        /\ fret.ok
        /\ Len(ftried) = Len(fmanagers)
        /\ \A i \in 1..Len(ftried) : ftried[i].mgr = fmanagers[i]
        /\ DOMAIN fall = UNION {fhosts[ftried[i].mgr] : i \in Answered}
        /\ \A name \in DOMAIN fall :
              \E i \in Answered :
                  /\ fall[name] = ftried[i].mgr
                  /\ name \in fhosts[ftried[i].mgr]
                  /\ \A j \in Answered : name \in fhosts[ftried[j].mgr] => j <= i

\* both sessions answered; both announce "X", only the first visited "Y"
C22_Witness ==
    /\ fpc = "returned"
    /\ fcall.method = "list_drivers"
    /\ Answered = {1, 2}
    /\ fhosts[ftried[1].mgr] = {"X", "Y"}
    /\ fhosts[ftried[2].mgr] = {"X"}
    /\ fall["X"] = ftried[2].mgr
    /\ fall["Y"] = ftried[1].mgr

\* C23: when one pending sendRequest returns because its caller's context was
\* cancelled, the session's connected flag does not change and every other
\* pending call keeps the pending-table entry that leads to its own channel.
C23_CancelLeavesOthers ==
    [][\A k \in DOMAIN scalls :
          (/\ scalls[k].pc = "waiting"
           /\ scalls'[k].pc = "returned"
           /\ scalls'[k].ret = "context canceled")
          => /\ connected' = connected
             /\ \A j \in DOMAIN scalls \ {k} :
                   (Pending(j) /\ scalls[j].id \in DOMAIN responses
                    /\ responses[scalls[j].id] = j)
                   => /\ scalls[j].id \in DOMAIN responses'
                      /\ responses'[scalls[j].id] = j
                      /\ scalls'[j] = scalls[j]]_vars

\* C27: the read loop never sends a response on a channel that its sendRequest
\* has closed.
C27_NoSendOnClosedChannel == ~panicked

\* the request just answered lacks a parameter its method requires
MissingParameter ==
    \/ hline.Method = "get_driver_info" /\ hline.driver = Missing
    \/ hline.Method = "create_instance" /\ (hline.iid = Missing \/ hline.driver = Missing)
    \/ /\ hline.Method \in {"remove_instance", "enable_instance", "disable_instance"}
       /\ hline.iid = Missing
    \/ /\ hline.Method = "execute_operation"
       /\ \/ hline.iid = Missing
          \/ hline.operation = Missing
          \/ hline.operation \in {"list", "link", "get"} /\ hline.path = Missing

\* the request just answered reached a driver, and the driver failed
DriverFailed ==
    /\ hcalls # {}
    /\ \/ hline.Method = "create_instance" /\ ~henv.initOk
       \/ hline.Method = "remove_instance" /\ ~henv.dropOk
       \/ hline.Method = "execute_operation" /\ henv.outcome = "error"

\* the line just answered is one the handler has to reject
RejectedLine ==
    \/ ~hline.json
    \/ hline.json /\ hline.Type \notin {"request", "ping"}
    \/ /\ hline.json /\ hline.Type = "request"
       /\ \/ hline.Method \notin {"list_drivers", "get_driver_info", "create_instance",
                                  "remove_instance", "list_instances", "enable_instance",
                                  "disable_instance", "execute_operation"}
          \/ MissingParameter
          \/ DriverFailed

\* C24: a line that does not parse, a message of unknown type, a request with
\* an unknown method or without a required parameter, and a request whose
\* driver call fails are each answered with an error response carrying the
\* line's id, and Handle then goes back to scanning the same connection.
C24_RejectedLineNotFatal ==
    [][/\ (hpc' = "sent" /\ RejectedLine') =>
              (Fails' /\ hout'.id = hline'.ID /\ dpc' = "handle")
       /\ (hpc = "sent" /\ RejectedLine) =>
              (hpc' = "scan" /\ dpc' = "handle" /\ dconn' = dconn)]_vars

\* an execute_operation whose driver call failed was answered on a connection
\* that is still being handled
C24_Witness ==
    /\ hpc = "sent"
    /\ hline.Method = "execute_operation"
    /\ DriverFailed
    /\ FailsWith("driver error")
    /\ dpc = "handle"

\* C25: a failed dial, a failed handshake send and a failed connection each
\* lead to the wait of runConnectionManager, which is followed by the next
\* dial attempt unless the shutdown signal is observed first, any number of
\* times; once the loop has ended on the shutdown signal nothing is dialed
\* any more.
C25_RetriesUntilShutdown ==
    /\ (dpc = "retry") ~> (dpc \in {"dial", "exit"})
    /\ (dpc = "dial") ~> (dpc \in {"connected", "retry", "exit"})
    /\ [][dpc = "retry" => dpc' \in {"retry", "dial", "exit"}]_vars
    /\ [][dpc = "dial" => dpc' \in {"dial", "connected", "retry", "exit"}]_vars
    /\ [][dpc = "exit" => dpc' = "exit" /\ dconn' = dconn]_vars

\* a connection that had served requests failed; runConnectionManager waits
C25_Witness ==
    /\ dpc = "retry"
    /\ dconn.hs = 1
    /\ dconn.served
    /\ DOMAIN instances # {}

\* C26: a Message written as its JSON line and parsed back equals the original
\* in every field, fields that are present but empty (an empty params map)
\* included.
C26_RoundTripIdentity ==
    codec.pc = "parsed" => codec.back = codec.msg

\* the driver objects of the instances in the table: the ones created and
\* not dropped by a RemoveDriverInstance that went through
LiveDrivers == {instances[iid].driver : iid \in DOMAIN instances}

\* C28: under every interleaving of ExecuteDriverOperation with
\* RemoveDriverInstance, the driver method an Execute calls is called on a
\* driver that RemoveDriverInstance has not dropped.
C28_NoCallAfterDrop ==
    [][(epc = "dispatch" /\ epc' = "returned") =>
           \A call \in eret'.calls : call.obj \in LiveDrivers]_vars

\* C29: a create_instance for an ID not in the table inserts the instance,
\* enabled, exactly when the registry knows the driver name and the driver's
\* Init succeeds; when the name is unknown or Init fails the request fails, the
\* table is as it was, and a later create_instance with the same ID is not
\* answered 'already exists'.
C29_InsertOnlyOnSuccess ==
    Handled("create_instance") /\ hline.iid \in InstanceIDs \ DOMAIN hpre
      /\ hline.driver # Missing =>
        IF GetDriver(hline.driver) /\ henv.initOk
        THEN /\ Succeeds("success")
             /\ DOMAIN instances = DOMAIN hpre \cup {hline.iid}
             /\ instances[hline.iid].enabled
             /\ instances[hline.iid].name = hline.driver
             /\ \A iid \in DOMAIN hpre : instances[iid] = hpre[iid]
        ELSE /\ Fails
             /\ FailsWith(IF GetDriver(hline.driver) THEN "failed to initialize driver"
                          ELSE "failed to get driver info")
             /\ instances = hpre
             /\ \A call \in hcalls : call.method = "Init"
             /\ hcalls = {} <=> ~GetDriver(hline.driver)
             /\ \A driverName \in DriverNames, initOk \in BOOLEAN :
                   CreateDriverInstance(instances, nextObj, hline.iid, driverName,
                                        EmptyConfig, initOk).err # "already exists"

\* a create_instance whose driver is known failed in Init, with other
\* instances in the table
C29_Witness ==
    /\ Handled("create_instance")
    /\ hline.iid \in InstanceIDs \ DOMAIN hpre
    /\ GetDriver(hline.driver)
    /\ ~henv.initOk
    /\ FailsWith("failed to initialize driver")
    /\ DOMAIN instances # {}

\* C30: a remove_instance whose driver's Drop fails is answered with an error
\* and leaves the instance table as it was, the instance with its driver and
\* its enabled flag; a later remove_instance or execute_operation on the ID
\* finds the instance.
C30_DropFailureKeepsInstance ==
    Handled("remove_instance") /\ hline.iid \in DOMAIN hpre /\ ~henv.dropOk =>
        /\ FailsWith("failed to drop driver")
        /\ hcalls = {Call(hpre[hline.iid].driver, "Drop")}
        /\ instances = hpre
        /\ GetDriverInstance(instances, hline.iid).err = Nil
        /\ RemoveDriverInstance(instances, hline.iid, TRUE).err = Nil
        /\ \A operation \in Operations :
              ExecuteDriverOperation(instances, hline.iid, operation, "/", "value").err
                  # "not found"

\* the Drop of a disabled instance failed, another instance beside it
C30_Witness ==
    /\ Handled("remove_instance")
    /\ hline.iid \in DOMAIN hpre
    /\ ~henv.dropOk
    /\ ~hpre[hline.iid].enabled
    /\ ~instances[hline.iid].enabled
    /\ Cardinality(DOMAIN instances) = 2

\* C31: an execute_operation on an instance ID that is not in the instance
\* table, or whose instance is disabled, is answered with the 'not found' or
\* the 'disabled' error and calls no driver method, whatever the operation
\* name and the path parameter are.
C31_AbsentOrDisabledRejected ==
    /\ Handled("execute_operation") /\ hline.iid \in InstanceIDs \ DOMAIN hpre
         /\ hline.operation # Missing
        => FailsWith("not found") /\ hcalls = {} /\ instances = hpre
    /\ Handled("execute_operation") /\ hline.iid \in DOMAIN hpre
         /\ hline.operation # Missing /\ ~hpre[hline.iid].enabled
        => FailsWith("disabled") /\ hcalls = {} /\ instances = hpre

\* a list with its path on a disabled instance has been rejected
C31_Witness ==
    /\ Handled("execute_operation")
    /\ hline.iid \in DOMAIN hpre
    /\ ~hpre[hline.iid].enabled
    /\ hline.operation = "list"
    /\ hline.path # Missing
    /\ FailsWith("disabled")

\* C32: when the read loop of a session ends on a read failure, and when a
\* write on its socket fails, the session's connected flag is false
\* afterwards; a sendRequest on a session that is not connected fails at once
\* as not connected; a request pending on a session whose read loop has ended
\* ends with the request timeout (or its caller's cancellation).
C32_TransportFailureDisconnects ==
    [][/\ (rl.pc # "ended" /\ rl'.pc = "ended") => ~connected'
       /\ \A k \in DOMAIN scalls :
             (/\ scalls[k].pc = "registered"
              /\ scalls'[k].pc = "returned"
              /\ scalls'[k].ret = "failed to send request") => ~connected'
       /\ (~connected /\ Len(scalls') > Len(scalls)) =>
             /\ scalls'[Len(scalls')].pc = "returned"
             /\ scalls'[Len(scalls')].ret = "not connected"
             /\ responses' = responses /\ wire' = wire
       /\ \A k \in DOMAIN scalls :
             (/\ rl.pc = "ended" /\ scalls[k].pc = "waiting" /\ scalls[k].buf = <<>>
              /\ scalls'[k].pc = "returned")
             => scalls'[k].ret \in {"request timeout", "context canceled"}]_vars

\* C33: a response whose id has no entry in the pending table is dropped and
\* changes no call and no entry; a response whose id has one is put in the
\* channel or, when the channel does not take it, given up; either way the
\* read loop is back at its Scan for the next line.
C33_ReadLoopProceeds ==
    [][/\ (/\ rl.pc = "scan" /\ ~ctxDone /\ inbox # <<>> /\ inbox' = Tail(inbox)
           /\ Head(inbox).text = "json" /\ Head(inbox).Type = "response"
           /\ Head(inbox).ID \notin DOMAIN responses)
          => (rl' = Idle /\ scalls' = scalls /\ responses' = responses)
       /\ (rl.pc = "send" /\ (rl' # rl \/ panicked' # panicked))
          => /\ rl' = Idle
             /\ ~panicked'
             /\ responses' = responses
             /\ \A k \in DOMAIN scalls : k # rl.ch => scalls'[k] = scalls[k]]_vars

\* C34: once the read loop of a pooled session has ended, the pool's
\* GetConnectedManagers does not return the session and an iteration of
\* GetAllDrivers or GetDriverInfo skips it without starting a call; and the
\* pool's calls access the pending table under the mutex the read loop locks.
C34_PoolObservesSession ==
    [][/\ rl'.pc = "ended" => PoolGetConnectedManagers' = {}
       /\ (rl.pc = "ended" /\ pool'.visits # pool.visits)
          => (pool'.visits = Append(pool.visits, "skipped") /\ scalls' = scalls
              /\ responses' = responses)
       /\ pool'.locks \subseteq {SessionMutex}]_vars

\* C35: the instance the create_instance fan-outs name exists on at most one
\* connected driver-manager process.
C35_InstanceOnOneManager ==
    Cardinality({k \in Conns : conns[k].connected /\ fcreated[k]}) <= 1

\* C36: Handle takes a line only when it is at its Scan, that is after the
\* response to the line before was written; the line it holds stays the same
\* until its response is written; processing a request or a ping ends with
\* one response carrying the id of that line (or, when the write fails, with
\* the end of the connection), and nothing more is written for the line
\* before Handle is back at its Scan.
C36_AnswersInArrivalOrder ==
    [][/\ (hpc # "process" /\ hpc' = "process") => (hpc = "scan" /\ hout = NoOutput)
       /\ (hpc = "process" /\ hpc' = "process") => hline' = hline
       /\ (hpc = "process" /\ hpc' # "process") =>
             \/ /\ hpc' = "sent"
                /\ hline' = hline
                /\ hout'.type = "response"
                /\ (hline.json /\ hline.Type \in {"request", "ping"}) => hout'.id = hline.ID
             \/ hpc' = "scan" /\ dpc' = "retry" /\ hout' = NoOutput
       /\ hpc = "sent" =>
             \/ hout' = hout /\ hline' = hline /\ hpc' = "sent"
             \/ hpc' = "scan" /\ hout' = NoOutput]_vars

\* a second request of the connection was answered with its own id after the
\* first one had been answered
C36_Witness ==
    /\ dconn.served
    /\ Handled("list_instances")
    /\ hline.ID = "m2"
    /\ hout.type = "response"
    /\ hout.id = "m2"
    /\ instances # NoInstances

\* C37: the steps of runConnectionManager outside Handle's processing of a
\* line (the end of a connection, the reconnect wait, the dial, the
\* handshake) leave the instance table as it is, with every enabled flag; and
\* when the first request of a connection is a create_instance for an ID the
\* table holds, it is answered 'already exists' and the table stays the same.
C37_TableSurvivesReconnect ==
    [][/\ (dpc # "handle" \/ (hpc = "scan" /\ dpc' # "handle")) => instances' = instances
       /\ (/\ hpc = "process" /\ hpc' = "sent" /\ ~dconn.served
           /\ hline.json /\ hline.Type = "request" /\ hline.Method = "create_instance"
           /\ hline.iid \in DOMAIN instances /\ hline.driver # Missing)
          => (FailsWith("already exists")' /\ instances' = instances)]_vars

\* on a connection dialed after an instance was created, with the handshake
\* written and no request answered yet, a create_instance for the ID of that
\* instance has arrived
C37_Witness ==
    /\ dpc = "handle"
    /\ hpc = "process"
    /\ dconn.hs = 1
    /\ ~dconn.served
    /\ hline.json /\ hline.Type = "request" /\ hline.Method = "create_instance"
    /\ hline.iid \in DOMAIN instances
    /\ hline.driver # Missing
    /\ ~instances[hline.iid].enabled

\* C38: runConnectionManager comes to a dial attempt, other than its first,
\* only out of its reconnect wait: after a dial failure, a handshake send
\* failure, a connection error or a clean close the interval passes first.
C38_IntervalBeforeEveryDial ==
    [][(dpc # "dial" /\ dpc' = "dial") => dpc = "retry"]_vars

\* C39: once Stop has returned GetConnectedManagers returns no session, and
\* no step adds a session to dms.clients, also not for a connection that was
\* in its handshake wait when Stop was called.
C39_NothingRegisteredAfterStop ==
    [][/\ stopped' => GetConnectedManagers' = {}
       /\ stopped => clients' = clients]_vars

====
